---- MODULE Spec2Model ----
(***************************************************************************)
(* State-machine model of co's POSIX IPC wrappers (src/src/ipc/posix_ipc.cc *)
(* and include/co/posix_ipc.h): Pipe, Fifo, PosixMsgQueue, NameSem, Sem and *)
(* PosixShareMem, together with the part of the kernel they talk to.        *)
(*                                                                          *)
(* One caller thread executes the operations.  An operation is atomic up to *)
(* the system calls at which it can be suspended (select, read, write,      *)
(* mq_send, mq_receive, sem_wait): there the caller's position is kept in   *)
(* pc and other holders of the same kernel object (the "peer", a forked     *)
(* child or another process that opened the same name) may take steps.      *)
(*                                                                          *)
(* Every system call an operation issues is appended to calls, which is     *)
(* reset when the next operation starts; op is the operation being (or last)*)
(* executed, ret its return value and thrown the exception it raised.       *)
(***************************************************************************)
EXTENDS Integers, Sequences, FiniteSets, TLC

VARIABLES
    pc,         \* position of the caller: "idle" or the syscall it is inside
    op,         \* the operation being executed, or the last one executed
    ret,        \* return value of the last completed operation
    thrown,     \* exception raised by the last completed operation
    calls,      \* system calls issued by op, in order
    probe,      \* results of the readiness probes made by op, in order
    iodone,     \* bytes already transferred by a suspended write syscall
    out,        \* bytes stored into the caller's buffer by the last read
    t0,         \* the time at which op was called
    now,        \* kernel: the realtime clock, in milliseconds
    fdtab,      \* kernel: what each descriptor of the process refers to
    nonblock,   \* kernel: descriptors whose file has O_NONBLOCK set
    pbuf,       \* kernel: bytes held in the pipe
    peerR,      \* a peer process holds the read end of the pipe
    peerW,      \* a peer process holds the write end of the pipe
    pipeObj,    \* Pipe object: "none" (not built), "live", "dead" (destructed)
    pipe_,      \* Pipe::pipe_[2], as <<pipe_[0], pipe_[1]>>
    mqs,        \* kernel: the message queues, by queue id
    mqName,     \* kernel: id of the queue the name denotes, 0 if none
    mqFdQ,      \* kernel: id of the queue the object's descriptor is open on
    mqPeer,     \* kernel: id of the queue a peer process has open, 0 if none
    mqObj,      \* PosixMsgQueue object: "none" or "live"
    mq_fd_,     \* PosixMsgQueue::fd_
    maxmsg_,    \* PosixMsgQueue::maxmsg_
    semObj,     \* Sem object: "none" or "live"
    semState,   \* Sem::sem_: "none", "init" (sem_init done) or "destroyed"
    semCount,   \* Sem::sem_: the count of the semaphore
    semRel,     \* sem_destroy calls made on sem_ since its sem_init
    nsems,      \* kernel: the named semaphores, by semaphore id
    nsName,     \* kernel: id of the semaphore the name denotes, 0 if none
    nsPeer,     \* kernel: id of the semaphore a peer process has open
    nsObj,      \* NameSem object: "none" or "live"
    sem_,       \* NameSem::sem_: id of the semaphore it points to, 0 if null
    shmSeg,     \* kernel: whether the shared memory name denotes a segment
    shmMapped,  \* kernel: the addresses at which the process has a mapping
    shmObj,     \* PosixShareMem object: "none" or "live"
    shm_fd_,    \* PosixShareMem::fd_
    addr_,      \* PosixShareMem::addr_: an address, 0 if null
    len_,       \* PosixShareMem::len_
    fifoFile,   \* file system: whether the path of the Fifo is a FIFO
    fifoPerm,   \* file system: the permission bits of that FIFO
    fifoObj,    \* Fifo object: "none" or "live"
    fifo_fd_,   \* Fifo::fd_
    fifoOpens,  \* successful open() calls of the Fifo object so far
    copyObj,    \* the Pipe object copied from the Pipe: "none", "live", "dead"
    copy_,      \* its pipe_
    build,      \* how thread.h was compiled: "none" (not yet), "debug", "ndebug"
    thrObj,     \* the Thread object: "none", "live", "dead"
    thr_id,     \* Thread::_id
    thrRun,     \* the started thread: "none", "running", "finished", "joined", "detached"
    tpc,        \* per calling thread: its position in join() / detach()
    tloc,       \* per calling thread: the local id of join() / detach()
    pthCalls,   \* pthread_join / pthread_detach calls made, in order
    mtxObj,     \* the Mutex object: "none", "live"
    mtxInit,    \* whether pthread_mutex_init has run on Mutex::_mutex
    mtxOwner,   \* the thread that holds the pthread mutex, 0 if none
    mpc         \* per thread: its position around lock() / unlock()

kernVars == <<fdtab, nonblock>>
pipeVars == <<pbuf, peerR, peerW, pipeObj, pipe_>>
procVars == <<pc, op, ret, thrown, calls, probe, iodone, out, t0>>
mqVars   == <<mqs, mqName, mqFdQ, mqPeer, mqObj, mq_fd_, maxmsg_>>
semVars  == <<semObj, semState, semCount, semRel>>
nsVars   == <<nsems, nsName, nsPeer, nsObj, sem_>>
shmVars  == <<shmSeg, shmMapped, shmObj, shm_fd_, addr_, len_>>
fifoVars == <<fifoFile, fifoPerm, fifoObj, fifo_fd_, fifoOpens>>
copyVars == <<copyObj, copy_>>
threadVars == <<thrObj, thr_id, thrRun, tpc, tloc, pthCalls>>
mutexVars == <<mtxObj, mtxInit, mtxOwner, mpc>>
thrVars == <<build, threadVars, mutexVars>>

\* What the operations on a Pipe, and the read/write path they share with
\* the other descriptor-based objects, leave alone.
PipeFrame == UNCHANGED <<now, mqVars, semVars, nsVars, shmVars, fifoVars, copyVars, thrVars>>
\* What the operations on a PosixMsgQueue leave alone.
MqFrame   == UNCHANGED <<iodone, probe, pipeVars, semVars, nsVars, shmVars, fifoVars, copyVars, thrVars>>
\* What the operations on a Sem or a NameSem leave alone.
SemFrame  == UNCHANGED <<iodone, probe, out, now, kernVars, pipeVars, mqVars, shmVars, fifoVars, copyVars, thrVars>>
\* What the operations on a PosixShareMem leave alone.
ShmFrame  == UNCHANGED <<iodone, probe, out, now, pipeVars, mqVars, semVars, nsVars, fifoVars, copyVars, thrVars>>
\* What the operations on a Fifo leave alone, the read/write path apart.
FifoFrame == UNCHANGED <<now, mqVars, semVars, nsVars, shmVars, pipeObj, pipe_, copyVars, thrVars>>
\* What the operations on the copy of a Pipe leave alone.
CopyFrame == UNCHANGED <<now, mqVars, semVars, nsVars, shmVars, fifoVars,
                         pbuf, peerR, peerW, pipeObj, pipe_, thrVars>>
\* What the operations of thread.h leave alone: the whole IPC core.
IpcFrame == UNCHANGED <<procVars, kernVars, now, pipeVars, mqVars, semVars, nsVars, shmVars,
                        fifoVars, copyVars>>

(***************************************************************************)
(* Bounds of the model.                                                     *)
(***************************************************************************)
NumFd   == 3        \* descriptors 0 .. NumFd-1 of the process
PipeCap == 2        \* capacity of the kernel pipe buffer, in PIPE_BUF units
MaxLen  == 2        \* longest buffer a read or write is called with
MaxWait == 1500     \* the positive timeout tried, in milliseconds
ClockStart == 100000 \* the clock while the program runs, in milliseconds
MaxMsg  == 2        \* the maxmsg a PosixMsgQueue is constructed with
MqDepth == 2        \* depth (mq_maxmsg) of a queue the object creates; the
                    \* source asks for 20, the model keeps queues short: the
                    \* operations tell an empty, a part filled and a full queue
PeerDepth == 1      \* depth (mq_maxmsg) of a queue another process created
NumQ    == 2        \* message queues the kernel can hold at a time
NumSem  == 2        \* named semaphores the kernel can hold at a time
MaxCount == 2       \* largest semaphore count followed
MaxRel  == 2        \* explicit Sem::close() calls followed on one Sem
MaxMaps == 2        \* mappings the process can hold at a time
MaxOpens == 2       \* successful Fifo::open() calls followed on one Fifo
NumThr  == 3        \* threads that use one Thread or one Mutex object
MaxPth  == 2        \* pthread_join / pthread_detach calls followed on one Thread

Fd     == 0 .. (NumFd - 1)
Thr    == 1 .. NumThr
QId    == 1 .. NumQ
SId    == 1 .. NumSem
NoSem  == [live |-> FALSE, count |-> 0]
NoQueue == [live |-> FALSE, msgsize |-> 0, depth |-> 0, msgs |-> <<>>]
Byte   == {"a", "b"}
Lens   == 0 .. MaxLen
Waits  == {-1, 0, MaxWait}
\* The n bytes a write of length n is called with: "a", "ab", "aba", ...
DataOf(n) == [i \in 1 .. n |-> IF i % 2 = 1 THEN "a" ELSE "b"]
Datas  == {DataOf(n) : n \in Lens}

IPC_INVALID_FD == -1

Min(a, b) == IF a < b THEN a ELSE b
Last(s)   == s[Len(s)]

(***************************************************************************)
(* Records.                                                                 *)
(***************************************************************************)
\* An operation: its name, the handle it found in the object when it was
\* called, and its arguments.
Op(name, fd, len, wait, data) ==
    [name |-> name, fd |-> fd, len |-> len, wait |-> wait, data |-> data]

NoOp == Op("none", IPC_INVALID_FD, 0, 0, <<>>)

\* A system call: its name, descriptor, size argument, time argument (the
\* timeout of select in ms), result, whether select left the descriptor in
\* the set it returned, and whether the call has returned.
Call(sys, fd, len, t, res, set, fin) ==
    [sys |-> sys, fd |-> fd, len |-> len, t |-> t, res |-> res,
     set |-> set, fin |-> fin]

Issued(sys) == {i \in 1 .. Len(calls) : calls[i].sys = sys}

(***************************************************************************)
(* Kernel: descriptors and the pipe.                                        *)
(***************************************************************************)
IsOpen(fd) == fd \in Fd /\ fdtab[fd] # "free"

FreeFds == {f \in Fd : fdtab[f] = "free"}

LowestFree(S) == CHOOSE f \in S : \A g \in S : f <= g

\* The kinds of descriptor open for reading, and for writing, on the pipe or
\* FIFO: a FIFO opened O_RDWR is both.
RKinds == {"pipe_r", "pipe_rw"}
WKinds == {"pipe_w", "pipe_rw"}

\* Number of open read ends and write ends of the pipe, over all processes.
Readers == (IF \E f \in Fd : fdtab[f] \in RKinds THEN 1 ELSE 0)
           + (IF peerR THEN 1 ELSE 0)
Writers == (IF \E f \in Fd : fdtab[f] \in WKinds THEN 1 ELSE 0)
           + (IF peerW THEN 1 ELSE 0)

Space == PipeCap - Len(pbuf)

\* What poll reports for an open descriptor (fs/pipe.c pipe_poll, as select
\* maps it): a read end is readable when bytes are queued or no writer is
\* left; a write end is writable when the buffer is not full; a write end
\* without readers is in error and is reported in both sets.
KReadable(fd) ==
    \/ fdtab[fd] \in RKinds /\ (pbuf # <<>> \/ Writers = 0)
    \/ fdtab[fd] \in WKinds /\ Readers = 0
KWritable(fd) ==
    fdtab[fd] \in WKinds /\ (Space > 0 \/ Readers = 0)

KReady(fd, dir) == IF dir = "r" THEN KReadable(fd) ELSE KWritable(fd)

(***************************************************************************)
(* How an operation starts, issues system calls and ends.                   *)
(***************************************************************************)
\* The operation o starts: the record of the previous operation is dropped.
Begin(o) ==
    /\ pc = "idle"
    /\ op' = o
    /\ t0' = now
    /\ iodone' = 0
    /\ out' = <<>>

\* The operation ends, returning r.
Return(r) ==
    /\ pc' = "idle"
    /\ ret' = r
    /\ thrown' = "none"

\* The operation ends by throwing exception e.
Throw(e) ==
    /\ pc' = "idle"
    /\ ret' = 0
    /\ thrown' = e

\* The calls cs with the last one completed, its result r.
Fin(cs, r, set) ==
    [cs EXCEPT ![Len(cs)] = [@ EXCEPT !.res = r, !.set = set, !.fin = TRUE]]

\* The default action of SIGPIPE: the process ends and its descriptors are
\* closed.
Killed ==
    /\ pc' = "killed"
    /\ fdtab' = [f \in Fd |-> "free"]
    /\ nonblock' = {}
    /\ UNCHANGED <<ret, thrown>>

(***************************************************************************)
(* trans_mode, set_fd_block, wait_write, wait_read, ipc::write, ipc::read.  *)
(***************************************************************************)
O_RDONLY == 0
O_WRONLY == 1
O_RDWR   == 2
O_CREAT  == 64
O_TRUNC  == 512
O_APPEND == 1024

\* The mode characters tried: the five of the interface and one that is not.
Modes == {"r", "a", "w", "m", "d", "x"}

\* trans_mode(mode): the open flags of a mode character, -1 if unknown.  The
\* flags are distinct bits, so their sum is their bitwise or.
trans_mode(mode) ==
    IF mode = "r" THEN O_RDONLY
    ELSE IF mode = "a" THEN O_WRONLY + O_CREAT + O_APPEND
    ELSE IF mode = "w" THEN O_WRONLY + O_CREAT + O_TRUNC
    ELSE IF mode = "m" THEN O_WRONLY + O_CREAT
    ELSE IF mode = "d" THEN O_RDWR + O_CREAT + O_APPEND
    ELSE -1

\* The access mode bits (O_ACCMODE) of open flags, and whether O_CREAT is
\* among them; -1 is all bits set.
AccMode(flags)  == flags % 4
HasCreat(flags) == (flags \div O_CREAT) % 2 = 1

IsGuarded(name) == name \in {"Pipe::read", "Pipe::write", "ipc::read", "ipc::write",
                             "Fifo::read", "Fifo::write"}
Dir(name) == IF name \in {"Pipe::read", "ipc::read", "Fifo::read"} THEN "r" ELSE "w"
IoSys(name) == IF Dir(name) = "r" THEN "read" ELSE "write"

\* wait_read and wait_write after select returned selret with the descriptor
\* in the returned set or not: -1 error, 0 timeout, 1 ready.
wait_result(selret, isset) ==
    IF selret < 0 THEN -1
    ELSE IF selret = 0 THEN 0
    ELSE IF isset THEN 1
    ELSE 0

\* Mutation of probe_return: a timeout is reported like an error.
probe_return_noTimeout(p) == -1

\* ipc::read and ipc::write once the probe returned p # 1: no system call.
probe_return(p) == IF p < 0 THEN -1 ELSE 0

\* The body of ipc::read / ipc::write from the moment select returns selret:
\* either the operation ends, or it goes on to the read/write system call.
AfterSelect(selret, isset, cs) ==
    LET p == wait_result(selret, isset) IN
    /\ probe' = <<p>>
    /\ calls' = cs
    /\ IF p = 1
       THEN pc' = "io" /\ UNCHANGED <<ret, thrown>>
       ELSE Return(probe_return(p))

\* ipc::read(fd, ..) / ipc::write(fd, ..): wait_read / wait_write calls select
\* on the one descriptor.  FD_SET of a negative descriptor is undefined
\* behaviour (an out-of-bounds store): select is still called and the probe
\* can come out as any of its three results.
Guarded(name, fd, wait) ==
    LET dir == Dir(name)
        sel(res, set, fin) == <<Call("select", fd, 0, wait, res, set, fin)>>
    IN
    IF fd < 0
    THEN \E r \in {-1, 0, 1} : AfterSelect(r, r = 1, sel(r, r = 1, TRUE))
    ELSE IF ~IsOpen(fd)
    THEN AfterSelect(-1, FALSE, sel(-1, FALSE, TRUE))              \* EBADF
    ELSE IF KReady(fd, dir)
    THEN AfterSelect(1, TRUE, sel(1, TRUE, TRUE))
    ELSE IF wait = 0
    THEN AfterSelect(0, FALSE, sel(0, FALSE, TRUE))
    ELSE /\ pc' = "select"                                         \* suspended
         /\ calls' = sel(0, FALSE, FALSE)
         /\ UNCHANGED <<ret, thrown, probe>>

\* select returns because the descriptor became ready.
SelectWake ==
    /\ PipeFrame
    /\ pc = "select"
    /\ KReady(op.fd, Dir(op.name))
    /\ AfterSelect(1, TRUE, Fin(calls, 1, TRUE))
    /\ UNCHANGED <<op, t0, iodone, out, kernVars, pipeVars>>

\* select returns because its timeout ran out.
SelectExpire ==
    /\ PipeFrame
    /\ pc = "select"
    /\ op.wait > 0
    /\ ~KReady(op.fd, Dir(op.name))
    /\ AfterSelect(0, FALSE, Fin(calls, 0, FALSE))
    /\ UNCHANGED <<op, t0, iodone, out, kernVars, pipeVars>>

(***************************************************************************)
(* Kernel: the read and write system calls on the pipe (pipe(7)).  cs is    *)
(* the calls of the operation, the last of them the call being executed.    *)
(***************************************************************************)
\* The system call returns r, and the operation returns that.
IoReturn(cs, r) ==
    /\ calls' = Fin(cs, r, FALSE)
    /\ Return(r)

\* The system call suspends the caller.
IoBlock(cs) ==
    /\ pc' = "io_wait"
    /\ calls' = cs
    /\ UNCHANGED <<ret, thrown>>

\* Mutation of TakeBytes: the newest bytes are taken, not the oldest.
TakeBytes_newest(cs, len) ==
    LET n == Min(len, Len(pbuf)) IN
    /\ out' = SubSeq(pbuf, Len(pbuf) - n + 1, Len(pbuf))
    /\ pbuf' = SubSeq(pbuf, 1, Len(pbuf) - n)
    /\ IoReturn(cs, n)

\* Take up to len bytes from the pipe into the caller's buffer.
TakeBytes(cs, len) ==
    LET n == Min(len, Len(pbuf)) IN
    /\ out' = SubSeq(pbuf, 1, n)
    /\ pbuf' = SubSeq(pbuf, n + 1, Len(pbuf))
    /\ IoReturn(cs, n)

\* ::read(fd, data, len).
KRead(cs, fd, len) ==
    /\ UNCHANGED <<iodone, kernVars>>
    /\ IF ~IsOpen(fd) \/ fdtab[fd] \notin RKinds
       THEN IoReturn(cs, -1) /\ UNCHANGED <<out, pbuf>>                \* EBADF
       ELSE IF len = 0
       THEN IoReturn(cs, 0) /\ UNCHANGED <<out, pbuf>>
       ELSE IF pbuf # <<>>
       THEN TakeBytes(cs, len)
       ELSE IF Writers = 0
       THEN IoReturn(cs, 0) /\ UNCHANGED <<out, pbuf>>                 \* end of file
       ELSE IF fd \in nonblock
       THEN IoReturn(cs, -1) /\ UNCHANGED <<out, pbuf>>                \* EAGAIN
       ELSE IoBlock(cs) /\ UNCHANGED <<out, pbuf>>

\* A write to a pipe without readers raises SIGPIPE.  Where the program has
\* it ignored or handled the call returns what it had written, or -1 (EPIPE)
\* if nothing; otherwise the signal's default action ends the process.
BrokenPipe(cs) ==
    \/ IoReturn(cs, IF iodone > 0 THEN iodone ELSE -1) /\ UNCHANGED kernVars
    \/ Killed /\ calls' = cs

\* Move as much of the unwritten part of data into the pipe as fits.  A
\* blocking write returns only when all of data is written.
PutBytes(cs, data, blocking) ==
    LET n == Min(Space, Len(data) - iodone) IN
    /\ pbuf' = pbuf \o SubSeq(data, iodone + 1, iodone + n)
    /\ iodone' = iodone + n
    /\ IF blocking /\ iodone + n < Len(data)
       THEN IoBlock(cs)
       ELSE IoReturn(cs, iodone + n)
    /\ UNCHANGED kernVars

\* ::write(fd, data, len).
KWrite(cs, fd, data) ==
    /\ UNCHANGED out
    /\ IF ~IsOpen(fd) \/ fdtab[fd] \notin WKinds
       THEN IoReturn(cs, -1) /\ UNCHANGED <<pbuf, iodone, kernVars>>   \* EBADF
       ELSE IF data = <<>>
       THEN IoReturn(cs, 0) /\ UNCHANGED <<pbuf, iodone, kernVars>>
       ELSE IF Readers = 0
       THEN BrokenPipe(cs) /\ UNCHANGED <<pbuf, iodone>>
       ELSE IF fd \in nonblock /\ Space = 0
       THEN IoReturn(cs, -1) /\ UNCHANGED <<pbuf, iodone, kernVars>>   \* EAGAIN
       ELSE PutBytes(cs, data, fd \notin nonblock)

\* ipc::read / ipc::write after the probe reported ready: the one read or
\* write system call, whose result is returned as it is.
IoSyscall ==
    /\ PipeFrame
    /\ pc = "io"
    /\ LET cs == Append(calls, Call(IoSys(op.name), op.fd, op.len, 0, 0, FALSE, FALSE)) IN
       IF Dir(op.name) = "r"
       THEN KRead(cs, op.fd, op.len)
       ELSE KWrite(cs, op.fd, op.data)
    /\ UNCHANGED <<op, t0, probe, peerR, peerW, pipeObj, pipe_>>

\* A suspended read or write system call goes on: bytes or room have
\* arrived, or the other side of the pipe is gone.
IoWake ==
    /\ PipeFrame
    /\ pc = "io_wait"
    /\ IF Dir(op.name) = "r"
       THEN /\ pbuf # <<>> \/ Writers = 0
            /\ KRead(calls, op.fd, op.len)
       ELSE /\ Space > 0 \/ Readers = 0
            /\ KWrite(calls, op.fd, op.data)
    /\ UNCHANGED <<op, t0, probe, peerR, peerW, pipeObj, pipe_>>

(***************************************************************************)
(* Descriptor bookkeeping shared by the objects.  A "handle state" st is    *)
(* the part of the state a close or fcntl sequence works on: p the object's *)
(* stored descriptors, tab and nb the kernel's table and O_NONBLOCK set, cs *)
(* the system calls issued so far.                                          *)
(***************************************************************************)
HandleSt(p) == [p |-> p, tab |-> fdtab, nb |-> nonblock, cs |-> <<>>]

\* ::close(fd): the descriptor is released; -1 (EBADF) if it is not open.
KClose(st, fd) ==
    [st EXCEPT !.tab = [st.tab EXCEPT ![fd] = "free"],
               !.nb  = st.nb \ {fd},
               !.cs  = Append(st.cs, Call("close", fd, 0, 0,
                                          IF st.tab[fd] = "free" THEN -1 ELSE 0,
                                          FALSE, TRUE))]

\* set_fd_block(fd, en): fcntl(F_GETFL), flip O_NONBLOCK, fcntl(F_SETFL).
\* Returns the handle state with field ok added.
set_fd_block(st, fd, en) ==
    IF ~(fd \in Fd /\ st.tab[fd] # "free")
    THEN [p |-> st.p, tab |-> st.tab, nb |-> st.nb, ok |-> FALSE,
          cs |-> Append(st.cs, Call("fcntl_getfl", fd, 0, 0, -1, FALSE, TRUE))]
    ELSE [p |-> st.p, tab |-> st.tab, ok |-> TRUE,
          nb |-> IF en THEN st.nb \ {fd} ELSE st.nb \cup {fd},
          cs |-> st.cs \o <<Call("fcntl_getfl", fd, 0, 0, 0, FALSE, TRUE),
                            Call("fcntl_setfl", fd, 0, 0, 0, FALSE, TRUE)>>]

(***************************************************************************)
(* Pipe.  pipe_[1] is the C++ pipe_[0] (read end), pipe_[2] the C++         *)
(* pipe_[1] (write end).                                                    *)
(***************************************************************************)
PipeIdle == pc = "idle" /\ pipeObj = "live"

\* Pipe::Pipe(): pipe(pipe_) takes the two lowest free descriptors, or fails
\* (ok = FALSE: EMFILE, ENFILE) and the constructor throws.
Pipe_Pipe(ok) ==
    /\ PipeFrame
    /\ pipeObj = "none"
    /\ Begin(Op("Pipe::Pipe", IPC_INVALID_FD, 0, 0, <<>>))
    /\ probe' = <<>>
    /\ IF ok /\ Cardinality(FreeFds) >= 2
       THEN LET r == LowestFree(FreeFds)
                w == LowestFree(FreeFds \ {r})
            IN /\ fdtab' = [fdtab EXCEPT ![r] = "pipe_r", ![w] = "pipe_w"]
               /\ pipe_' = <<r, w>>
               /\ pipeObj' = "live"
               /\ pbuf' = <<>>
               /\ calls' = <<Call("pipe", r, 0, 0, 0, FALSE, TRUE)>>
               /\ Return(0)
       ELSE /\ calls' = <<Call("pipe", IPC_INVALID_FD, 0, 0, -1, FALSE, TRUE)>>
            /\ Throw("runtime_error")
            /\ UNCHANGED <<fdtab, pipe_, pipeObj, pbuf>>
    /\ UNCHANGED <<nonblock, peerR, peerW>>

\* Mutation of close_r: the write end is closed with the read end.
close_r_both(st) ==
    LET c == IF st.p[1] >= 0 THEN KClose(st, st.p[1]) ELSE st
        d == IF st.p[2] >= 0 THEN KClose(c, st.p[2]) ELSE c
    IN [d EXCEPT !.p = <<IPC_INVALID_FD, IPC_INVALID_FD>>]

\* Pipe::close_r()
close_r(st) ==
    LET c == IF st.p[1] >= 0 THEN KClose(st, st.p[1]) ELSE st
    IN [c EXCEPT !.p = <<IPC_INVALID_FD, st.p[2]>>]

\* Pipe::close_w()
close_w(st) ==
    LET c == IF st.p[2] >= 0 THEN KClose(st, st.p[2]) ELSE st
    IN [c EXCEPT !.p = <<st.p[1], IPC_INVALID_FD>>]

\* Pipe::close()
Pipe_close_body(st) == close_r(close_w(st))

\* The object's descriptors, the kernel's table and the calls become st's.
PipeApply(st) ==
    /\ pipe_' = st.p
    /\ fdtab' = st.tab
    /\ nonblock' = st.nb
    /\ calls' = st.cs
    /\ probe' = <<>>
    /\ UNCHANGED <<pbuf, peerR, peerW>>

Pipe_close_r ==
    /\ PipeFrame
    /\ PipeIdle
    /\ Begin(Op("Pipe::close_r", pipe_[1], 0, 0, <<>>))
    /\ PipeApply(close_r(HandleSt(pipe_)))
    /\ Return(0)
    /\ UNCHANGED pipeObj

Pipe_close_w ==
    /\ PipeFrame
    /\ PipeIdle
    /\ Begin(Op("Pipe::close_w", pipe_[2], 0, 0, <<>>))
    /\ PipeApply(close_w(HandleSt(pipe_)))
    /\ Return(0)
    /\ UNCHANGED pipeObj

Pipe_close ==
    /\ PipeFrame
    /\ PipeIdle
    /\ Begin(Op("Pipe::close", pipe_[2], 0, 0, <<>>))
    /\ PipeApply(Pipe_close_body(HandleSt(pipe_)))
    /\ Return(0)
    /\ UNCHANGED pipeObj

\* Pipe::~Pipe(): close().
Pipe_dtor ==
    /\ PipeFrame
    /\ PipeIdle
    /\ Begin(Op("Pipe::~Pipe", pipe_[2], 0, 0, <<>>))
    /\ PipeApply(Pipe_close_body(HandleSt(pipe_)))
    /\ Return(0)
    /\ pipeObj' = "dead"

\* Pipe::set_size(size): not supported, reports whether an end is open.
Pipe_set_size ==
    /\ PipeFrame
    /\ PipeIdle
    /\ Begin(Op("Pipe::set_size", pipe_[1], 0, 0, <<>>))
    /\ calls' = <<>>
    /\ probe' = <<>>
    /\ Return(IF pipe_[1] < 0 /\ pipe_[2] < 0 THEN 0 ELSE 1)
    /\ UNCHANGED <<kernVars, pipeVars>>

\* Pipe::set_block(en): the read end if it is open, else the write end.
Pipe_set_block_body(st, en) ==
    IF st.p[1] >= 0 THEN set_fd_block(st, st.p[1], en)
    ELSE IF st.p[2] >= 0 THEN set_fd_block(st, st.p[2], en)
    ELSE [p |-> st.p, tab |-> st.tab, nb |-> st.nb, ok |-> FALSE, cs |-> st.cs]

Pipe_set_block(en) ==
    /\ PipeFrame
    /\ PipeIdle
    /\ Begin(Op("Pipe::set_block", pipe_[1], IF en THEN 1 ELSE 0, 0, <<>>))
    /\ LET st == Pipe_set_block_body(HandleSt(pipe_), en) IN
       /\ PipeApply(st)
       /\ Return(IF st.ok THEN 1 ELSE 0)
    /\ UNCHANGED pipeObj

\* Pipe::write(data, len, wait)
Pipe_write(data, wait) ==
    /\ PipeFrame
    /\ PipeIdle
    /\ Begin(Op("Pipe::write", pipe_[2], Len(data), wait, data))
    /\ IF pipe_[2] < 0
       THEN calls' = <<>> /\ probe' = <<>> /\ Return(-1)
       ELSE Guarded("Pipe::write", pipe_[2], wait)
    /\ UNCHANGED <<kernVars, pipeVars>>

\* Pipe::read(data, len, wait)
Pipe_read(len, wait) ==
    /\ PipeFrame
    /\ PipeIdle
    /\ Begin(Op("Pipe::read", pipe_[1], len, wait, <<>>))
    /\ IF pipe_[1] < 0
       THEN calls' = <<>> /\ probe' = <<>> /\ Return(-1)
       ELSE Guarded("Pipe::read", pipe_[1], wait)
    /\ UNCHANGED <<kernVars, pipeVars>>

\* ipc::write(fd, data, len, wait), called directly.
ipc_write(fd, data, wait) ==
    /\ PipeFrame
    /\ Begin(Op("ipc::write", fd, Len(data), wait, data))
    /\ Guarded("ipc::write", fd, wait)
    /\ UNCHANGED <<kernVars, pipeVars>>

\* ipc::read(fd, data, len, wait), called directly.
ipc_read(fd, len, wait) ==
    /\ PipeFrame
    /\ Begin(Op("ipc::read", fd, len, wait, <<>>))
    /\ Guarded("ipc::read", fd, wait)
    /\ UNCHANGED <<kernVars, pipeVars>>

(***************************************************************************)
(* The peer: a process forked while the Pipe was live, holding its own      *)
(* copies of the descriptors of the same kernel pipe.                       *)
(***************************************************************************)
Fork ==
    /\ PipeFrame
    /\ PipeIdle
    /\ ~peerR /\ ~peerW
    /\ pipe_[1] >= 0 \/ pipe_[2] >= 0
    /\ peerR' = (pipe_[1] >= 0)
    /\ peerW' = (pipe_[2] >= 0)
    /\ UNCHANGED <<procVars, kernVars, pbuf, pipeObj, pipe_>>

PeerRead(n) ==
    /\ PipeFrame
    /\ peerR
    /\ pbuf # <<>>
    /\ pbuf' = SubSeq(pbuf, Min(n, Len(pbuf)) + 1, Len(pbuf))
    /\ UNCHANGED <<procVars, kernVars, peerR, peerW, pipeObj, pipe_>>

PeerWrite(b) ==
    /\ PipeFrame
    /\ peerW
    /\ Space > 0
    /\ Readers > 0
    /\ pbuf' = Append(pbuf, b)
    /\ UNCHANGED <<procVars, kernVars, peerR, peerW, pipeObj, pipe_>>

PeerCloseR ==
    /\ PipeFrame
    /\ peerR
    /\ peerR' = FALSE
    /\ UNCHANGED <<procVars, kernVars, pbuf, peerW, pipeObj, pipe_>>

PeerCloseW ==
    /\ PipeFrame
    /\ peerW
    /\ peerW' = FALSE
    /\ UNCHANGED <<procVars, kernVars, pbuf, peerR, pipeObj, pipe_>>

(***************************************************************************)
(* Kernel: POSIX message queues (mq_overview(7)).  A queue lives while it   *)
(* has a name or a process has it open.  Messages are kept by their size.   *)
(***************************************************************************)
\* The queues left once name, descriptor and peer refer to n, f and p.
MqGc(qs, n, f, p) == [q \in QId |-> IF q \in {n, f, p} THEN qs[q] ELSE NoQueue]

FreeQ == {q \in QId : ~mqs[q].live}

\* mq_open(name, flags, 0666, attr) with attr.mq_msgsize = msgsize and
\* attr.mq_maxmsg = depth: the queue id opened and whether it is new, or
\* id 0 on failure.  attr only counts when the queue is created.
KMqOpen(flags, msgsize) ==
    IF AccMode(flags) = 3 THEN [q |-> 0, new |-> FALSE]                \* EINVAL
    ELSE IF FreeFds = {} THEN [q |-> 0, new |-> FALSE]                 \* EMFILE
    ELSE IF mqName # 0 THEN [q |-> mqName, new |-> FALSE]
    ELSE IF ~HasCreat(flags) THEN [q |-> 0, new |-> FALSE]             \* ENOENT
    ELSE IF msgsize <= 0 THEN [q |-> 0, new |-> FALSE]                 \* EINVAL
    ELSE IF FreeQ = {} THEN [q |-> 0, new |-> FALSE]                   \* ENOSPC
    ELSE [q |-> LowestFree(FreeQ), new |-> TRUE]

MqKind(flags) == IF AccMode(flags) = O_RDONLY THEN "mq_r"
                 ELSE IF AccMode(flags) = O_WRONLY THEN "mq_w" ELSE "mq_rw"

\* mq_send / mq_timedsend of a message of len bytes on fd: the result (0 or
\* -1), whether the caller is suspended instead, and the queue's messages
\* afterwards.  timed calls carry the absolute deadline dl, in ms.
KMqSend(fd, len, timed, dl) ==
    LET Q == mqs[mqFdQ]
        fail == [res |-> -1, block |-> FALSE, msgs |-> <<>>, same |-> TRUE]
    IN
    IF ~IsOpen(fd) \/ fdtab[fd] \notin {"mq_w", "mq_rw"} THEN fail     \* EBADF
    ELSE IF len > Q.msgsize THEN fail                                  \* EMSGSIZE
    ELSE IF Len(Q.msgs) < Q.depth
    THEN [res |-> 0, block |-> FALSE, msgs |-> Append(Q.msgs, len), same |-> FALSE]
    ELSE IF fd \in nonblock THEN fail                                  \* EAGAIN
    ELSE IF timed /\ dl <= now THEN fail                               \* ETIMEDOUT
    ELSE [res |-> 0, block |-> TRUE, msgs |-> <<>>, same |-> TRUE]

\* mq_receive / mq_timedreceive into a buffer of size bytes: the size of the
\* message removed, or -1.
KMqReceive(fd, size, timed, dl) ==
    LET Q == mqs[mqFdQ]
        fail == [res |-> -1, block |-> FALSE, msgs |-> <<>>, same |-> TRUE]
    IN
    IF ~IsOpen(fd) \/ fdtab[fd] \notin {"mq_r", "mq_rw"} THEN fail     \* EBADF
    ELSE IF size < Q.msgsize THEN fail                                 \* EMSGSIZE
    ELSE IF Q.msgs # <<>>
    THEN [res |-> Head(Q.msgs), block |-> FALSE, msgs |-> Tail(Q.msgs), same |-> FALSE]
    ELSE IF fd \in nonblock THEN fail                                  \* EAGAIN
    ELSE IF timed /\ dl <= now THEN fail                               \* ETIMEDOUT
    ELSE [res |-> 0, block |-> TRUE, msgs |-> <<>>, same |-> TRUE]

(***************************************************************************)
(* PosixMsgQueue.                                                           *)
(***************************************************************************)
MqIdle == pc = "idle" /\ mqObj = "live"

\* struct timespec abs_timeout = { wait / 1000, wait % 1000 * 1000 }
abs_timeout(wait) == [sec |-> wait \div 1000, nsec |-> (wait % 1000) * 1000]

\* A timespec as milliseconds since the epoch, as the kernel compares it
\* with the clock.
TimespecMs(ts) == ts.sec * 1000 + ts.nsec \div 1000000

\* PosixMsgQueue::PosixMsgQueue(path, mode, maxmsg, srv): mq_open with the
\* flags of trans_mode(mode), whatever they are; throws if it fails.
PosixMsgQueue_ctor(mode, maxmsg) ==
    /\ MqFrame
    /\ mqObj = "none"
    /\ Begin(Op("PosixMsgQueue::PosixMsgQueue", IPC_INVALID_FD, maxmsg, 0, <<mode>>))
    /\ LET flags == trans_mode(mode)
           o == KMqOpen(flags, maxmsg)
           fd == LowestFree(FreeFds)
       IN IF o.q # 0
          THEN /\ calls' = <<Call("mq_open", fd, maxmsg, flags, fd, FALSE, TRUE)>>
               /\ mqs' = IF o.new
                         THEN [mqs EXCEPT ![o.q] = [live |-> TRUE, msgsize |-> maxmsg,
                                                    depth |-> MqDepth, msgs |-> <<>>]]
                         ELSE mqs
               /\ mqName' = o.q
               /\ mqFdQ' = o.q
               /\ fdtab' = [fdtab EXCEPT ![fd] = MqKind(flags)]
               /\ mq_fd_' = fd
               /\ maxmsg_' = maxmsg
               /\ mqObj' = "live"
               /\ Return(0)
          ELSE /\ calls' = <<Call("mq_open", IPC_INVALID_FD, maxmsg, flags, -1, FALSE, TRUE)>>
               /\ Throw("runtime_error")
               /\ UNCHANGED <<mqs, mqName, mqFdQ, fdtab, mq_fd_, maxmsg_, mqObj>>
    /\ UNCHANGED <<now, nonblock, mqPeer, out>>

\* PosixMsgQueue::close(): the handle state after it, and the calls made.
PosixMsgQueue_close_body(st) ==
    IF st.p >= 0
    THEN [p |-> IPC_INVALID_FD,
          tab |-> [st.tab EXCEPT ![st.p] = "free"],
          nb |-> st.nb \ {st.p},
          cs |-> Append(st.cs, Call("mq_close", st.p, 0, 0, 0, FALSE, TRUE))]
    ELSE st

\* The object's descriptor and the kernel's table become st's; the queue the
\* descriptor was open on is released with it.
MqApply(st, name) ==
    /\ mq_fd_' = st.p
    /\ fdtab' = st.tab
    /\ nonblock' = st.nb
    /\ calls' = st.cs
    /\ mqName' = name
    /\ mqFdQ' = IF st.p >= 0 THEN mqFdQ ELSE 0
    /\ mqs' = MqGc(mqs, name, mqFdQ', mqPeer)
    /\ UNCHANGED <<now, mqPeer, maxmsg_, out>>

PosixMsgQueue_close ==
    /\ MqFrame
    /\ MqIdle
    /\ Begin(Op("PosixMsgQueue::close", mq_fd_, 0, 0, <<>>))
    /\ MqApply(PosixMsgQueue_close_body(HandleSt(mq_fd_)), mqName)
    /\ Return(0)
    /\ UNCHANGED mqObj

\* PosixMsgQueue::~PosixMsgQueue(): close().
PosixMsgQueue_dtor ==
    /\ MqFrame
    /\ MqIdle
    /\ Begin(Op("PosixMsgQueue::~PosixMsgQueue", mq_fd_, 0, 0, <<>>))
    /\ MqApply(PosixMsgQueue_close_body(HandleSt(mq_fd_)), mqName)
    /\ Return(0)
    /\ mqObj' = "none"

\* PosixMsgQueue::destroy(): close(), then mq_unlink(path_).
PosixMsgQueue_destroy ==
    /\ MqFrame
    /\ MqIdle
    /\ Begin(Op("PosixMsgQueue::destroy", mq_fd_, 0, 0, <<>>))
    /\ LET st == PosixMsgQueue_close_body(HandleSt(mq_fd_))
           un == Call("mq_unlink", IPC_INVALID_FD, 0, 0, IF mqName # 0 THEN 0 ELSE -1, FALSE, TRUE)
       IN MqApply([st EXCEPT !.cs = Append(st.cs, un)], 0)
    /\ Return(0)
    /\ UNCHANGED mqObj

\* PosixMsgQueue::set_block(en): mq_getattr, then mq_setattr with mq_flags
\* 0 or O_NONBLOCK.
PosixMsgQueue_set_block(en) ==
    /\ MqFrame
    /\ MqIdle
    /\ Begin(Op("PosixMsgQueue::set_block", mq_fd_, IF en THEN 1 ELSE 0, 0, <<>>))
    /\ IF mq_fd_ < 0
       THEN calls' = <<>> /\ Return(0) /\ UNCHANGED nonblock
       ELSE /\ calls' = <<Call("mq_getattr", mq_fd_, 0, 0, 0, FALSE, TRUE),
                          Call("mq_setattr", mq_fd_, 0, 0, 0, FALSE, TRUE)>>
            /\ nonblock' = IF en THEN nonblock \ {mq_fd_} ELSE nonblock \cup {mq_fd_}
            /\ Return(1)
    /\ UNCHANGED <<now, fdtab, mqVars, out>>

\* The send or receive system call sc of the operation has the outcome k:
\* the caller is suspended in it, or it returns and the operation returns r.
MqOutcome(cs, k, r) ==
    /\ mqs' = IF k.same THEN mqs ELSE [mqs EXCEPT ![mqFdQ].msgs = k.msgs]
    /\ IF k.block
       THEN /\ pc' = "mq_wait"
            /\ calls' = cs
            /\ UNCHANGED <<ret, thrown>>
       ELSE /\ calls' = Fin(cs, k.res, FALSE)
            /\ Return(r)

\* What PosixMsgQueue::write returns when the send call returned res.
write_result(res, len) == IF res < 0 THEN -1 ELSE len

\* PosixMsgQueue::write(data, len, wait)
PosixMsgQueue_write(len, wait) ==
    /\ MqFrame
    /\ MqIdle
    /\ Begin(Op("PosixMsgQueue::write", mq_fd_, len, wait, <<>>))
    /\ IF mq_fd_ < 0
       THEN calls' = <<>> /\ Return(-1) /\ UNCHANGED mqs
       ELSE IF wait < 0
       THEN LET k == KMqSend(mq_fd_, len, FALSE, 0) IN
            MqOutcome(<<Call("mq_send", mq_fd_, len, 0, 0, FALSE, FALSE)>>,
                      k, write_result(k.res, len))
       ELSE LET dl == TimespecMs(abs_timeout(wait))
                k == KMqSend(mq_fd_, len, TRUE, dl) IN
            MqOutcome(<<Call("mq_timedsend", mq_fd_, len, dl, 0, FALSE, FALSE)>>,
                      k, write_result(k.res, len))
    /\ UNCHANGED <<now, kernVars, mqName, mqFdQ, mqPeer, mqObj, mq_fd_, maxmsg_, out>>

\* Mutation of read_rejects: the length is not looked at.
read_rejects_never(len, maxmsg) == FALSE

\* Whether PosixMsgQueue::read turns the call down for its length.
read_rejects(len, maxmsg) == len > maxmsg

\* PosixMsgQueue::read(data, len, wait): the receive call is given maxmsg_
\* as the size of the buffer.
PosixMsgQueue_read(len, wait) ==
    /\ MqFrame
    /\ MqIdle
    /\ Begin(Op("PosixMsgQueue::read", mq_fd_, len, wait, <<>>))
    /\ IF mq_fd_ < 0
       THEN calls' = <<>> /\ Return(-1) /\ UNCHANGED mqs
       ELSE IF read_rejects(len, maxmsg_)
       THEN calls' = <<>> /\ Return(-1) /\ UNCHANGED mqs
       ELSE IF wait < 0
       THEN LET k == KMqReceive(mq_fd_, maxmsg_, FALSE, 0) IN
            MqOutcome(<<Call("mq_receive", mq_fd_, maxmsg_, 0, 0, FALSE, FALSE)>>,
                      k, k.res)
       ELSE LET dl == TimespecMs(abs_timeout(wait))
                k == KMqReceive(mq_fd_, maxmsg_, TRUE, dl) IN
            MqOutcome(<<Call("mq_timedreceive", mq_fd_, maxmsg_, dl, 0, FALSE, FALSE)>>,
                      k, k.res)
    /\ UNCHANGED <<now, kernVars, mqName, mqFdQ, mqPeer, mqObj, mq_fd_, maxmsg_, out>>

\* A suspended send or receive system call returns: room or a message has
\* arrived, or a timed call has reached its deadline (ETIMEDOUT).
MqResume ==
    /\ MqFrame
    /\ pc = "mq_wait"
    /\ LET c == Last(calls)
           send == c.sys \in {"mq_send", "mq_timedsend"}
           timed == c.sys \in {"mq_timedsend", "mq_timedreceive"}
           k == IF send THEN KMqSend(c.fd, c.len, timed, c.t)
                        ELSE KMqReceive(c.fd, c.len, timed, c.t)
       IN /\ ~k.block
          /\ MqOutcome(calls, k, IF send THEN write_result(k.res, op.len) ELSE k.res)
    /\ UNCHANGED <<op, t0, now, kernVars, mqName, mqFdQ, mqPeer, mqObj, mq_fd_, maxmsg_, out>>

(***************************************************************************)
(* The peer of the queue: another process using the same queue name.        *)
(***************************************************************************)
MqPeerFrame == UNCHANGED <<procVars, kernVars, now, pipeVars, semVars, nsVars, shmVars, fifoVars, copyVars, thrVars, mqObj, mq_fd_, maxmsg_, mqFdQ>>

\* The peer creates the queue, with its own attributes.
PeerMqCreate(msgsize) ==
    /\ MqPeerFrame
    /\ mqPeer = 0 /\ mqName = 0 /\ FreeQ # {}
    /\ LET q == LowestFree(FreeQ) IN
          /\ mqs' = [mqs EXCEPT ![q] = [live |-> TRUE, msgsize |-> msgsize,
                                        depth |-> PeerDepth, msgs |-> <<>>]]
          /\ mqName' = q
          /\ mqPeer' = q

\* The peer opens the queue the name denotes.
PeerMqOpen ==
    /\ MqPeerFrame
    /\ mqPeer = 0 /\ mqName # 0
    /\ mqPeer' = mqName
    /\ UNCHANGED <<mqs, mqName>>

\* The peer sends a message of the queue's full message size.
PeerMqSend ==
    /\ MqPeerFrame
    /\ mqPeer # 0
    /\ Len(mqs[mqPeer].msgs) < mqs[mqPeer].depth
    /\ mqs' = [mqs EXCEPT ![mqPeer].msgs = Append(@, mqs[mqPeer].msgsize)]
    /\ UNCHANGED <<mqName, mqPeer>>

\* The peer receives the oldest message.
PeerMqReceive ==
    /\ MqPeerFrame
    /\ mqPeer # 0
    /\ mqs[mqPeer].msgs # <<>>
    /\ mqs' = [mqs EXCEPT ![mqPeer].msgs = Tail(@)]
    /\ UNCHANGED <<mqName, mqPeer>>

\* The peer closes its descriptor.
PeerMqClose ==
    /\ MqPeerFrame
    /\ mqPeer # 0
    /\ mqPeer' = 0
    /\ mqs' = MqGc(mqs, mqName, mqFdQ, 0)
    /\ UNCHANGED mqName

(***************************************************************************)
(* Sem: an unnamed semaphore held in the object (sem_t sem_).               *)
(***************************************************************************)
SemIdle == pc = "idle" /\ semObj = "live"

\* The handle an operation on the Sem finds: 0 while sem_ is initialised,
\* invalid once it has been destroyed.
SemHandle == IF semState = "init" THEN 0 ELSE IPC_INVALID_FD

\* block as a timeout: true waits without limit, false does not wait.
BlockWait(block) == IF block THEN -1 ELSE 0

\* Sem::Sem(shared): sem_init(&sem_, shared, 1); throws if it fails (ok =
\* FALSE: ENOSYS, EINVAL).
Sem_Sem(ok) ==
    /\ SemFrame
    /\ pc = "idle" /\ semObj = "none"
    /\ Begin(Op("Sem::Sem", IPC_INVALID_FD, 0, 0, <<>>))
    /\ IF ok
       THEN /\ calls' = <<Call("sem_init", 0, 0, 0, 0, FALSE, TRUE)>>
            /\ semObj' = "live"
            /\ semState' = "init"
            /\ semCount' = 1
            /\ semRel' = 0
            /\ Return(0)
       ELSE /\ calls' = <<Call("sem_init", 0, 0, 0, -1, FALSE, TRUE)>>
            /\ Throw("runtime_error")
            /\ UNCHANGED semVars
    /\ UNCHANGED nsVars

\* Sem::close(): sem_destroy(&sem_), then sem_ is zeroed.  Nothing records
\* whether sem_ is still initialised.
Sem_close_body ==
    /\ calls' = <<Call("sem_destroy", SemHandle, 0, 0, 0, FALSE, TRUE)>>
    /\ semState' = "destroyed"
    /\ semCount' = 0
    /\ semRel' = semRel + 1
    /\ Return(0)

Sem_close ==
    /\ SemFrame
    /\ SemIdle
    /\ semRel < MaxRel
    /\ Begin(Op("Sem::close", SemHandle, 0, 0, <<>>))
    /\ Sem_close_body
    /\ UNCHANGED <<semObj, nsVars>>

\* Sem::~Sem(): close().
Sem_dtor ==
    /\ SemFrame
    /\ SemIdle
    /\ Begin(Op("Sem::~Sem", SemHandle, 0, 0, <<>>))
    /\ Sem_close_body
    /\ semObj' = "none"
    /\ UNCHANGED nsVars

\* sem_trywait / sem_wait on a semaphore of count c.  On a destroyed
\* semaphore the call is undefined: it may fail, succeed or never return.
\* The result: res 0 or -1, or block; dec tells whether the count went down.
KSemWait(valid, c, block) ==
    IF ~valid
    THEN {[res |-> -1, block |-> FALSE, dec |-> FALSE],
          [res |-> 0, block |-> FALSE, dec |-> FALSE]}
         \cup (IF block THEN {[res |-> 0, block |-> TRUE, dec |-> FALSE]} ELSE {})
    ELSE IF c > 0 THEN {[res |-> 0, block |-> FALSE, dec |-> TRUE]}
    ELSE IF block THEN {[res |-> 0, block |-> TRUE, dec |-> FALSE]}
    ELSE {[res |-> -1, block |-> FALSE, dec |-> FALSE]}                \* EAGAIN

\* Mutation of sem_p_result: true whatever the wait call returned.
sem_p_result_always(res) == 1

\* The value sem_p returns when the wait call returned res.
sem_p_result(res) == IF res = 0 THEN 1 ELSE 0

\* Sem::sem_p(block)
Sem_sem_p(block) ==
    /\ SemFrame
    /\ SemIdle
    /\ Begin(Op("Sem::sem_p", SemHandle, 0, BlockWait(block), <<>>))
    /\ \E k \in KSemWait(semState = "init", semCount, block) :
          LET c == Call(IF block THEN "sem_wait" ELSE "sem_trywait",
                        SemHandle, 0, 0, k.res, FALSE, ~k.block) IN
          /\ calls' = <<c>>
          /\ semCount' = IF k.dec THEN semCount - 1 ELSE semCount
          /\ IF k.block
             THEN pc' = "sem_wait" /\ UNCHANGED <<ret, thrown>>
             ELSE Return(sem_p_result(k.res))
    /\ UNCHANGED <<semObj, semState, semRel, nsVars>>

\* A suspended sem_wait on the Sem returns: the count has become positive.
SemResume ==
    /\ SemFrame
    /\ pc = "sem_wait" /\ op.name = "Sem::sem_p"
    /\ semState = "init" /\ semCount > 0
    /\ semCount' = semCount - 1
    /\ calls' = Fin(calls, 0, FALSE)
    /\ Return(sem_p_result(0))
    /\ UNCHANGED <<op, t0, semObj, semState, semRel, nsVars>>

\* Sem::sem_v(): sem_post(&sem_).
Sem_sem_v ==
    /\ SemFrame
    /\ SemIdle
    /\ semCount < MaxCount
    /\ Begin(Op("Sem::sem_v", SemHandle, 0, 0, <<>>))
    /\ IF semState = "init"
       THEN /\ calls' = <<Call("sem_post", SemHandle, 0, 0, 0, FALSE, TRUE)>>
            /\ semCount' = semCount + 1
            /\ Return(1)
       ELSE \E r \in {0, -1} :                       \* undefined on a destroyed sem_
            /\ calls' = <<Call("sem_post", SemHandle, 0, 0, r, FALSE, TRUE)>>
            /\ Return(sem_p_result(r))
            /\ UNCHANGED semCount
    /\ UNCHANGED <<semObj, semState, semRel, nsVars>>

\* Another thread of the process posts the Sem.
SemPeerV ==
    /\ SemFrame
    /\ semObj = "live" /\ semState = "init"
    /\ semCount < MaxCount
    /\ semCount' = semCount + 1
    /\ UNCHANGED <<procVars, semObj, semState, semRel, nsVars>>

\* Another thread of the process takes the Sem.
SemPeerP ==
    /\ SemFrame
    /\ semObj = "live" /\ semState = "init"
    /\ semCount > 0
    /\ semCount' = semCount - 1
    /\ UNCHANGED <<procVars, semObj, semState, semRel, nsVars>>

(***************************************************************************)
(* Kernel: named semaphores (sem_overview(7)), and NameSem.                 *)
(***************************************************************************)
NsIdle == pc = "idle" /\ nsObj = "live"

NsHandle == IF sem_ # 0 THEN sem_ ELSE IPC_INVALID_FD

FreeS == {i \in SId : ~nsems[i].live}

\* The semaphores left once name, handle and peer refer to n, h and p.
NsGc(ss, n, h, p) == [i \in SId |-> IF i \in {n, h, p} THEN ss[i] ELSE NoSem]

\* Mutation of KSemOpen: a name that denotes nothing is bound again to the
\* semaphore a peer still has open.
KSemOpen_rebinds(excl) ==
    IF nsName # 0
    THEN IF excl THEN [s |-> 0, new |-> FALSE]
         ELSE [s |-> nsName, new |-> FALSE]
    ELSE IF nsPeer # 0 THEN [s |-> nsPeer, new |-> FALSE]
    ELSE IF FreeS = {} THEN [s |-> 0, new |-> FALSE]
    ELSE [s |-> LowestFree(FreeS), new |-> TRUE]

\* sem_open(name, excl ? O_CREAT|O_EXCL : O_CREAT, 0666, 1): the id of
\* the semaphore opened and whether it is new, or id 0 on failure.
KSemOpen(excl) ==
    IF nsName # 0
    THEN IF excl THEN [s |-> 0, new |-> FALSE]                         \* EEXIST
         ELSE [s |-> nsName, new |-> FALSE]
    ELSE IF FreeS = {} THEN [s |-> 0, new |-> FALSE]                   \* ENOSPC
    ELSE [s |-> LowestFree(FreeS), new |-> TRUE]

\* NameSem::NameSem(name, srv)
NameSem_NameSem(srv) ==
    /\ SemFrame
    /\ pc = "idle" /\ nsObj = "none"
    /\ Begin(Op("NameSem::NameSem", IPC_INVALID_FD, IF srv THEN 1 ELSE 0, 0, <<>>))
    /\ LET o == KSemOpen(srv) IN
       IF o.s # 0
       THEN /\ calls' = <<Call("sem_open", o.s, 0, 0, 0, FALSE, TRUE)>>
            /\ nsems' = IF o.new THEN [nsems EXCEPT ![o.s] = [live |-> TRUE, count |-> 1]]
                        ELSE nsems
            /\ nsName' = o.s
            /\ sem_' = o.s
            /\ nsObj' = "live"
            /\ Return(0)
       ELSE /\ calls' = <<Call("sem_open", IPC_INVALID_FD, 0, 0, -1, FALSE, TRUE)>>
            /\ Throw("runtime_error")
            /\ UNCHANGED <<nsems, nsName, sem_, nsObj>>
    /\ UNCHANGED <<nsPeer, semVars>>

\* NameSem::close(): the calls it makes.
NameSem_close_calls ==
    IF sem_ # 0 THEN <<Call("sem_close", sem_, 0, 0, 0, FALSE, TRUE)>> ELSE <<>>

NameSem_close ==
    /\ SemFrame
    /\ NsIdle
    /\ Begin(Op("NameSem::close", NsHandle, 0, 0, <<>>))
    /\ calls' = NameSem_close_calls
    /\ sem_' = 0
    /\ nsems' = NsGc(nsems, nsName, 0, nsPeer)
    /\ Return(0)
    /\ UNCHANGED <<nsName, nsPeer, nsObj, semVars>>

\* NameSem::~NameSem(): close().
NameSem_dtor ==
    /\ SemFrame
    /\ NsIdle
    /\ Begin(Op("NameSem::~NameSem", NsHandle, 0, 0, <<>>))
    /\ calls' = NameSem_close_calls
    /\ sem_' = 0
    /\ nsems' = NsGc(nsems, nsName, 0, nsPeer)
    /\ nsObj' = "none"
    /\ Return(0)
    /\ UNCHANGED <<nsName, nsPeer, semVars>>

\* NameSem::unlink(): close(), then sem_unlink(name_).
NameSem_unlink ==
    /\ SemFrame
    /\ NsIdle
    /\ Begin(Op("NameSem::unlink", NsHandle, 0, 0, <<>>))
    /\ calls' = Append(NameSem_close_calls,
                       Call("sem_unlink", IPC_INVALID_FD, 0, 0,
                            IF nsName # 0 THEN 0 ELSE -1, FALSE, TRUE))
    /\ sem_' = 0
    /\ nsName' = 0
    /\ nsems' = NsGc(nsems, 0, 0, nsPeer)
    /\ Return(0)
    /\ UNCHANGED <<nsPeer, nsObj, semVars>>

\* NameSem::value(): sem_getvalue, -1 without a handle.
NameSem_value ==
    /\ SemFrame
    /\ NsIdle
    /\ Begin(Op("NameSem::value", NsHandle, 0, 0, <<>>))
    /\ IF sem_ = 0
       THEN calls' = <<>> /\ Return(-1)
       ELSE /\ calls' = <<Call("sem_getvalue", sem_, 0, 0, 0, FALSE, TRUE)>>
            /\ Return(nsems[sem_].count)
    /\ UNCHANGED <<nsVars, semVars>>

\* NameSem::sem_p(block)
NameSem_sem_p(block) ==
    /\ SemFrame
    /\ NsIdle
    /\ Begin(Op("NameSem::sem_p", NsHandle, 0, BlockWait(block), <<>>))
    /\ IF sem_ = 0
       THEN calls' = <<>> /\ Return(0) /\ UNCHANGED nsems
       ELSE \E k \in KSemWait(TRUE, nsems[sem_].count, block) :
               LET c == Call(IF block THEN "sem_wait" ELSE "sem_trywait",
                             sem_, 0, 0, k.res, FALSE, ~k.block) IN
               /\ calls' = <<c>>
               /\ nsems' = IF k.dec THEN [nsems EXCEPT ![sem_].count = @ - 1] ELSE nsems
               /\ IF k.block
                  THEN pc' = "sem_wait" /\ UNCHANGED <<ret, thrown>>
                  ELSE Return(sem_p_result(k.res))
    /\ UNCHANGED <<nsName, nsPeer, nsObj, sem_, semVars>>

\* A suspended sem_wait on the named semaphore returns.
NameSemResume ==
    /\ SemFrame
    /\ pc = "sem_wait" /\ op.name = "NameSem::sem_p"
    /\ nsems[sem_].count > 0
    /\ nsems' = [nsems EXCEPT ![sem_].count = @ - 1]
    /\ calls' = Fin(calls, 0, FALSE)
    /\ Return(sem_p_result(0))
    /\ UNCHANGED <<op, t0, nsName, nsPeer, nsObj, sem_, semVars>>

\* NameSem::sem_v()
NameSem_sem_v ==
    /\ SemFrame
    /\ NsIdle
    /\ Begin(Op("NameSem::sem_v", NsHandle, 0, 0, <<>>))
    /\ IF sem_ = 0
       THEN calls' = <<>> /\ Return(0) /\ UNCHANGED nsems
       ELSE /\ nsems[sem_].count < MaxCount
            /\ calls' = <<Call("sem_post", sem_, 0, 0, 0, FALSE, TRUE)>>
            /\ nsems' = [nsems EXCEPT ![sem_].count = @ + 1]
            /\ Return(1)
    /\ UNCHANGED <<nsName, nsPeer, nsObj, sem_, semVars>>

\* Another process opens the name (creating the semaphore with count 1 if
\* there is none), posts, takes, or closes its handle.
NsPeerFrame == UNCHANGED <<procVars, semVars, nsObj, sem_>>

PeerSemOpen ==
    /\ SemFrame /\ NsPeerFrame
    /\ nsPeer = 0
    /\ LET o == KSemOpen(FALSE) IN
       /\ o.s # 0
       /\ nsems' = IF o.new THEN [nsems EXCEPT ![o.s] = [live |-> TRUE, count |-> 1]]
                   ELSE nsems
       /\ nsName' = o.s
       /\ nsPeer' = o.s

PeerSemPost ==
    /\ SemFrame /\ NsPeerFrame
    /\ nsPeer # 0
    /\ nsems[nsPeer].count < MaxCount
    /\ nsems' = [nsems EXCEPT ![nsPeer].count = @ + 1]
    /\ UNCHANGED <<nsName, nsPeer>>

PeerSemWait ==
    /\ SemFrame /\ NsPeerFrame
    /\ nsPeer # 0
    /\ nsems[nsPeer].count > 0
    /\ nsems' = [nsems EXCEPT ![nsPeer].count = @ - 1]
    /\ UNCHANGED <<nsName, nsPeer>>

PeerSemClose ==
    /\ SemFrame /\ NsPeerFrame
    /\ nsPeer # 0
    /\ nsPeer' = 0
    /\ nsems' = NsGc(nsems, nsName, sem_, 0)
    /\ UNCHANGED nsName

(***************************************************************************)
(* PosixShareMem: a POSIX shared memory object (shm_overview(7)) and its    *)
(* mapping.  Addresses are 1 .. MaxMaps; 0 is the null pointer.             *)
(***************************************************************************)
ShmIdle == pc = "idle" /\ shmObj = "live"

Addrs == 1 .. MaxMaps

\* The mapping an operation finds in the object: addr_, invalid if null.
ShmHandle == IF addr_ # 0 THEN addr_ ELSE IPC_INVALID_FD

\* The protection modes of map(), and one it does not know.
MapModes == {"r", "w", "e", "d", "n", "m", "x"}

\* The switch of map(): whether the mode has a protection.
prot_known(mode) == mode \in {"r", "w", "e", "d", "n", "m"}

\* PosixShareMem::PosixShareMem(name, mode)
PosixShareMem_ctor(mode) ==
    /\ ShmFrame
    /\ pc = "idle" /\ shmObj = "none"
    /\ Begin(Op("PosixShareMem::PosixShareMem", IPC_INVALID_FD, 0, 0, <<mode>>))
    /\ addr_' = 0
    /\ IF trans_mode(mode) < 0
       THEN /\ calls' = <<>>
            /\ Throw("invalid_argument")
            /\ UNCHANGED <<fdtab, shmSeg, shmObj, shm_fd_>>
       ELSE IF (shmSeg \/ HasCreat(trans_mode(mode))) /\ FreeFds # {}
       THEN LET fd == LowestFree(FreeFds) IN
            /\ calls' = <<Call("shm_open", fd, 0, trans_mode(mode), 0, FALSE, TRUE)>>
            /\ fdtab' = [fdtab EXCEPT ![fd] = "shm"]
            /\ shmSeg' = TRUE
            /\ shm_fd_' = fd
            /\ shmObj' = "live"
            /\ Return(0)
       ELSE /\ calls' = <<Call("shm_open", IPC_INVALID_FD, 0, trans_mode(mode), -1, FALSE, TRUE)>>
            /\ Throw("runtime_error")                        \* ENOENT, EMFILE
            /\ UNCHANGED <<fdtab, shmSeg, shmObj, shm_fd_>>
    /\ UNCHANGED <<nonblock, shmMapped, len_>>

\* mmap(nullptr, len, prot, shared ? MAP_SHARED : MAP_FIXED, ...): the
\* addresses it can return, -1 for MAP_FAILED.  Flags with neither
\* MAP_SHARED nor MAP_PRIVATE and a length of 0 are refused (EINVAL); any
\* call can fail (ENOMEM, EACCES).
KMmap(len, shared) ==
    {-1} \cup (IF shared /\ len > 0 /\ Addrs \ shmMapped # {}
               THEN {LowestFree(Addrs \ shmMapped)} ELSE {})

\* PosixShareMem::map(len, mode, shared, offset).  The result of mmap is
\* compared and dropped: addr_ is not assigned.  The function has no return
\* statement: flowing off its end is undefined, the caller gets null, the
\* address mmap returned, or the process dies.
PosixShareMem_map(len, mode, shared) ==
    /\ ShmFrame
    /\ ShmIdle
    /\ Begin(Op("PosixShareMem::map", ShmHandle, len, 0, <<mode>>))
    /\ IF addr_ # 0
       THEN /\ calls' = <<>>
            /\ Return(0)
            /\ UNCHANGED <<kernVars, shmMapped, len_>>
       ELSE /\ len_' = len
            /\ IF ~prot_known(mode)
               THEN /\ calls' = <<>>
                    /\ Throw("runtime_error")
                    /\ UNCHANGED <<kernVars, shmMapped>>
               ELSE \E a \in KMmap(len, shared) :
                    /\ calls' = <<Call("mmap", shm_fd_, len, 0, a, FALSE, TRUE)>>
                    /\ \/ /\ a < 0
                          /\ Throw("runtime_error")
                          /\ UNCHANGED <<kernVars, shmMapped>>
                       \/ /\ \E r \in {0, a} : Return(r)
                          /\ shmMapped' = shmMapped \cup ({a} \cap Addrs)
                          /\ UNCHANGED kernVars
                       \/ /\ Killed
                          /\ shmMapped' = {}
    /\ UNCHANGED <<shmSeg, shmObj, shm_fd_, addr_>>

\* PosixShareMem::unmap(): the calls it makes and the mappings it leaves.
\* addr_ is left as it was.
unmap_calls  == IF addr_ # 0 THEN <<Call("munmap", addr_, len_, 0, 0, FALSE, TRUE)>> ELSE <<>>
unmap_leaves == IF addr_ # 0 THEN shmMapped \ {addr_} ELSE shmMapped

PosixShareMem_unmap ==
    /\ ShmFrame
    /\ ShmIdle
    /\ Begin(Op("PosixShareMem::unmap", ShmHandle, 0, 0, <<>>))
    /\ calls' = unmap_calls
    /\ shmMapped' = unmap_leaves
    /\ Return(0)
    /\ UNCHANGED <<kernVars, shmSeg, shmObj, shm_fd_, addr_, len_>>

\* PosixShareMem::~PosixShareMem(): unmap().  fd_ is not closed.
PosixShareMem_dtor ==
    /\ ShmFrame
    /\ ShmIdle
    /\ Begin(Op("PosixShareMem::~PosixShareMem", ShmHandle, 0, 0, <<>>))
    /\ calls' = unmap_calls
    /\ shmMapped' = unmap_leaves
    /\ shmObj' = "none"
    /\ Return(0)
    /\ UNCHANGED <<kernVars, shmSeg, shm_fd_, addr_, len_>>

\* PosixShareMem::destroy(): unmap(), then shm_unlink(name_).
PosixShareMem_destroy ==
    /\ ShmFrame
    /\ ShmIdle
    /\ Begin(Op("PosixShareMem::destroy", ShmHandle, 0, 0, <<>>))
    /\ calls' = Append(unmap_calls,
                       Call("shm_unlink", IPC_INVALID_FD, 0, 0,
                            IF shmSeg THEN 0 ELSE -1, FALSE, TRUE))
    /\ shmMapped' = unmap_leaves
    /\ shmSeg' = FALSE
    /\ Return(0)
    /\ UNCHANGED <<kernVars, shmObj, shm_fd_, addr_, len_>>

\* PosixShareMem::addr()
PosixShareMem_addr ==
    /\ ShmFrame
    /\ ShmIdle
    /\ Begin(Op("PosixShareMem::addr", ShmHandle, 0, 0, <<>>))
    /\ calls' = <<>>
    /\ Return(addr_)
    /\ UNCHANGED <<kernVars, shmVars>>

\* Another process creates the segment, or unlinks its name.
PeerShmCreate ==
    /\ ShmFrame
    /\ ~shmSeg
    /\ shmSeg' = TRUE
    /\ UNCHANGED <<procVars, kernVars, shmMapped, shmObj, shm_fd_, addr_, len_>>

PeerShmUnlink ==
    /\ ShmFrame
    /\ shmSeg
    /\ shmSeg' = FALSE
    /\ UNCHANGED <<procVars, kernVars, shmMapped, shmObj, shm_fd_, addr_, len_>>

(***************************************************************************)
(* Fifo: a FIFO special file (fifo(7)) at the object's path.  In the kernel *)
(* it is a pipe: pbuf, and the ends peerR and peerW of another process.     *)
(***************************************************************************)
FifoIdle == pc = "idle" /\ fifoObj = "live"

\* The permission bits mkfifo(path, mode) gives the file: the low nine bits.
PermBits(mode) == mode % 512

\* Whether the file's owner may open it with access mode acc: the owner's
\* read bit for O_RDONLY, write bit for O_WRONLY, both for O_RDWR.
OwnerMay(perm, acc) ==
    LET own == (perm \div 64) % 8
        r == own \div 4 = 1
        w == (own \div 2) % 2 = 1
    IN IF acc = O_RDONLY THEN r ELSE IF acc = O_WRONLY THEN w ELSE r /\ w

\* Fifo::Fifo(path, mode): mkfifo(path, trans_mode(mode)), the open flags
\* of the mode character passed as the permissions of the file; throws
\* if the mode is unknown or mkfifo fails (EEXIST).
Fifo_Fifo(mode) ==
    /\ FifoFrame
    /\ pc = "idle" /\ fifoObj = "none"
    /\ Begin(Op("Fifo::Fifo", IPC_INVALID_FD, 0, 0, <<mode>>))
    /\ probe' = <<>>
    /\ IF trans_mode(mode) < 0
       THEN /\ calls' = <<>>
            /\ Throw("invalid_argument")
            /\ UNCHANGED fifoVars
       ELSE IF fifoFile
       THEN /\ calls' = <<Call("mkfifo", IPC_INVALID_FD, 0, trans_mode(mode), -1, FALSE, TRUE)>>
            /\ Throw("runtime_error")
            /\ UNCHANGED fifoVars
       ELSE /\ calls' = <<Call("mkfifo", IPC_INVALID_FD, 0, trans_mode(mode), 0, FALSE, TRUE)>>
            /\ fifoFile' = TRUE
            /\ fifoPerm' = PermBits(trans_mode(mode))
            /\ fifoObj' = "live"
            /\ fifo_fd_' = IPC_INVALID_FD
            /\ fifoOpens' = 0
            /\ Return(0)
    /\ UNCHANGED <<kernVars, pbuf, peerR, peerW>>

FifoKind(acc) == IF acc = O_RDONLY THEN "pipe_r"
                 ELSE IF acc = O_WRONLY THEN "pipe_w" ELSE "pipe_rw"

\* ::open(path, flags) of the FIFO by a process that may (priv) or may not
\* override file permissions: "fail" (EACCES, EMFILE), "block" (a FIFO opened
\* for reading only waits for a writer, one opened for writing only for a
\* reader), or "ok".
KFifoOpen(flags, priv) ==
    LET acc == AccMode(flags) IN
    IF ~fifoFile \/ FreeFds = {} THEN "fail"
    ELSE IF ~(priv \/ OwnerMay(fifoPerm, acc)) THEN "fail"
    ELSE IF acc = O_RDONLY /\ Writers = 0 THEN "block"
    ELSE IF acc = O_WRONLY /\ Readers = 0 THEN "block"
    ELSE "ok"

\* ::open returns the descriptor fd: Fifo::open stores it and returns true.
\* A FIFO no process had open starts empty.
FifoOpened(cs, flags) ==
    LET fd == LowestFree(FreeFds) IN
    /\ calls' = Fin(cs, fd, FALSE)
    /\ fdtab' = [fdtab EXCEPT ![fd] = FifoKind(AccMode(flags))]
    /\ pbuf' = IF Readers + Writers = 0 THEN <<>> ELSE pbuf
    /\ fifo_fd_' = fd
    /\ fifoOpens' = fifoOpens + 1
    /\ Return(1)

\* Mutation of open_rejects: an object that has had a descriptor before is
\* turned down as well.
open_rejects_reopen(fd, mode) == fd >= 0 \/ trans_mode(mode) < 0 \/ fifoOpens > 0

\* Whether Fifo::open turns the call down before ::open: a descriptor is
\* open already, or the mode is unknown.
open_rejects(fd, mode) == fd >= 0 \/ trans_mode(mode) < 0

\* Fifo::open(mode)
Fifo_open(mode) ==
    /\ FifoFrame
    /\ FifoIdle
    /\ fifoOpens < MaxOpens
    /\ Begin(Op("Fifo::open", fifo_fd_, 0, 0, <<mode>>))
    /\ probe' = <<>>
    /\ IF open_rejects(fifo_fd_, mode)
       THEN /\ calls' = <<>>
            /\ Return(0)
            /\ UNCHANGED <<fdtab, pbuf, fifo_fd_, fifoOpens>>
       ELSE LET flags == trans_mode(mode)
                cs == <<Call("open", IPC_INVALID_FD, 0, flags, 0, FALSE, FALSE)>>
            IN \E priv \in BOOLEAN :
               LET k == KFifoOpen(flags, priv) IN
               IF k = "ok" THEN FifoOpened(cs, flags)
               ELSE IF k = "block"
               THEN /\ pc' = "open_wait"
                    /\ calls' = cs
                    /\ UNCHANGED <<ret, thrown, fdtab, pbuf, fifo_fd_, fifoOpens>>
               ELSE /\ calls' = Fin(cs, -1, FALSE)
                    /\ Return(0)
                    /\ UNCHANGED <<fdtab, pbuf, fifo_fd_, fifoOpens>>
    /\ UNCHANGED <<nonblock, peerR, peerW, fifoFile, fifoPerm, fifoObj>>

\* A suspended ::open of the FIFO returns: the other side has been opened.
FifoOpenResume ==
    /\ FifoFrame
    /\ pc = "open_wait"
    /\ LET flags == Last(calls).t IN
       /\ KFifoOpen(flags, TRUE) = "ok"
       /\ FifoOpened(calls, flags)
    /\ UNCHANGED <<op, t0, iodone, out, probe, nonblock, peerR, peerW,
                   fifoFile, fifoPerm, fifoObj>>

\* Fifo::close(): the handle state after it, and the calls made.
Fifo_close_body(st) ==
    IF st.p >= 0 THEN [KClose(st, st.p) EXCEPT !.p = IPC_INVALID_FD] ELSE st

\* The object's descriptor, the kernel's table and the calls become st's.
FifoApply(st) ==
    /\ fifo_fd_' = st.p
    /\ fdtab' = st.tab
    /\ nonblock' = st.nb
    /\ calls' = st.cs
    /\ probe' = <<>>
    /\ UNCHANGED <<pbuf, peerR, peerW, fifoFile, fifoPerm, fifoOpens>>

Fifo_close ==
    /\ FifoFrame
    /\ FifoIdle
    /\ Begin(Op("Fifo::close", fifo_fd_, 0, 0, <<>>))
    /\ FifoApply(Fifo_close_body(HandleSt(fifo_fd_)))
    /\ Return(0)
    /\ UNCHANGED fifoObj

\* Fifo::~Fifo(): close().  The file stays.
Fifo_dtor ==
    /\ FifoFrame
    /\ FifoIdle
    /\ Begin(Op("Fifo::~Fifo", fifo_fd_, 0, 0, <<>>))
    /\ FifoApply(Fifo_close_body(HandleSt(fifo_fd_)))
    /\ Return(0)
    /\ fifoObj' = "none"

\* Fifo::set_block(en): set_fd_block(fd_, en), whatever fd_ is.
Fifo_set_block(en) ==
    /\ FifoFrame
    /\ FifoIdle
    /\ Begin(Op("Fifo::set_block", fifo_fd_, IF en THEN 1 ELSE 0, 0, <<>>))
    /\ LET st == set_fd_block(HandleSt(fifo_fd_), fifo_fd_, en) IN
       /\ FifoApply(st)
       /\ Return(IF st.ok THEN 1 ELSE 0)
    /\ UNCHANGED fifoObj

\* Fifo::write(data, len, wait)
Fifo_write(data, wait) ==
    /\ FifoFrame
    /\ FifoIdle
    /\ Begin(Op("Fifo::write", fifo_fd_, Len(data), wait, data))
    /\ IF fifo_fd_ < 0
       THEN calls' = <<>> /\ probe' = <<>> /\ Return(-1)
       ELSE Guarded("Fifo::write", fifo_fd_, wait)
    /\ UNCHANGED <<kernVars, pbuf, peerR, peerW, fifoVars>>

\* Fifo::read(data, len, wait)
Fifo_read(len, wait) ==
    /\ FifoFrame
    /\ FifoIdle
    /\ Begin(Op("Fifo::read", fifo_fd_, len, wait, <<>>))
    /\ IF fifo_fd_ < 0
       THEN calls' = <<>> /\ probe' = <<>> /\ Return(-1)
       ELSE Guarded("Fifo::read", fifo_fd_, wait)
    /\ UNCHANGED <<kernVars, pbuf, peerR, peerW, fifoVars>>

\* Another process opens the FIFO for reading, or for writing.
PeerFifoOpenR ==
    /\ FifoFrame
    /\ fifoFile /\ ~peerR
    /\ peerR' = TRUE
    /\ pbuf' = IF Readers + Writers = 0 THEN <<>> ELSE pbuf
    /\ UNCHANGED <<procVars, kernVars, peerW, fifoVars>>

PeerFifoOpenW ==
    /\ FifoFrame
    /\ fifoFile /\ ~peerW
    /\ peerW' = TRUE
    /\ pbuf' = IF Readers + Writers = 0 THEN <<>> ELSE pbuf
    /\ UNCHANGED <<procVars, kernVars, peerR, fifoVars>>

(***************************************************************************)
(* A second Pipe object made from the first.  class Pipe declares no copy   *)
(* constructor and no assignment operator and deletes neither, so the      *)
(* compiler generates both: they copy pipe_ member by member and make no    *)
(* system call.                                                            *)
(***************************************************************************)
CopyIdle == pc = "idle" /\ copyObj = "live"

\* The copy's descriptors, the kernel's table and the calls become st's.
CopyApply(st) ==
    /\ copy_' = st.p
    /\ fdtab' = st.tab
    /\ nonblock' = st.nb
    /\ calls' = st.cs
    /\ probe' = <<>>

\* Pipe b(a): the implicit copy constructor.
Pipe_copy ==
    /\ CopyFrame
    /\ PipeIdle
    /\ copyObj = "none"
    /\ Begin(Op("Pipe::Pipe(const Pipe&)", pipe_[2], 0, 0, <<>>))
    /\ copy_' = pipe_
    /\ copyObj' = "live"
    /\ calls' = <<>>
    /\ probe' = <<>>
    /\ Return(0)
    /\ UNCHANGED kernVars

\* b = a: the implicit copy assignment; what b held is overwritten unclosed.
Pipe_assign ==
    /\ CopyFrame
    /\ PipeIdle
    /\ CopyIdle
    /\ Begin(Op("Pipe::operator=", pipe_[2], 0, 0, <<>>))
    /\ copy_' = pipe_
    /\ calls' = <<>>
    /\ probe' = <<>>
    /\ Return(0)
    /\ UNCHANGED <<kernVars, copyObj>>

\* b.close()
Copy_close ==
    /\ CopyFrame
    /\ CopyIdle
    /\ Begin(Op("Pipe::close", copy_[2], 0, 0, <<>>))
    /\ CopyApply(Pipe_close_body(HandleSt(copy_)))
    /\ Return(0)
    /\ UNCHANGED copyObj

\* b.~Pipe()
Copy_dtor ==
    /\ CopyFrame
    /\ CopyIdle
    /\ Begin(Op("Pipe::~Pipe", copy_[2], 0, 0, <<>>))
    /\ CopyApply(Pipe_close_body(HandleSt(copy_)))
    /\ Return(0)
    /\ copyObj' = "dead"

(***************************************************************************)
(* Thread (thread.h).  Several threads call join() and detach() on one      *)
(* Thread object; thread 1 owns it and runs its constructor and destructor. *)
(* A call is two steps: the exchange on _id, the only access to the object, *)
(* and the pthread call on the local id.                                    *)
(***************************************************************************)
\* The id pthread_create stores for the started thread; never 0 here.
StartedId == 1

\* The local id of a thread that has not called join() or detach() yet.
NoCall == -1

\* assert(e) evaluates e unless NDEBUG is defined, and then aborts if it is false.
AssertRuns == build' = "debug"

\* The translation unit is compiled once, with or without NDEBUG.
Compile == \E b \in {"debug", "ndebug"} : (build = "none" \/ build = b) /\ build' = b

\* atomic_swap(p, v): stores v and yields the value held before, in one step.
atomic_swap(mem, v) == [old |-> mem, new |-> v]

\* Mutation of id_swap: the id is read and left in place.
id_swap_keeps(mem) == atomic_swap(mem, mem)

\* atomic_swap(&_id, (pthread_t)0) of join() and detach()
id_swap(mem) == atomic_swap(mem, 0)

\* if (id != 0) of join() and detach()
id_used(id) == id # 0

PthCall(sys, id, t) == [sys |-> sys, id |-> id, by |-> t]

\* Thread::Thread(cb): assert(0 == pthread_create(&_id, ...)) after _id(0).
Thread_Thread(ok) ==
    /\ IpcFrame
    /\ thrObj = "none"
    /\ Compile
    /\ IF ~AssertRuns
       THEN thrObj' = "live" /\ UNCHANGED <<thr_id, thrRun>>
       ELSE IF ok
            THEN thrObj' = "live" /\ thr_id' = StartedId /\ thrRun' = "running"
            ELSE thrObj' = "aborted" /\ UNCHANGED <<thr_id, thrRun>>
    /\ UNCHANGED <<tpc, tloc, pthCalls, mutexVars>>

\* Thread::_Run returns: the thread function has terminated.
ThreadExit ==
    /\ IpcFrame
    /\ thrRun = "running"
    /\ thrRun' = "finished"
    /\ UNCHANGED <<build, thrObj, thr_id, tpc, tloc, pthCalls, mutexVars>>

\* The first statement of join() (what = "join"), detach() ("detach") or of
\* the join() of ~Thread ("dtor"), by thread t.
ThreadSwap(t, what) ==
    /\ IpcFrame
    /\ tpc[t] = "idle"
    /\ IF what = "dtor" THEN t = 1 /\ thrObj = "live" ELSE thrObj \in {"live", "dying"}
    /\ LET x == id_swap(thr_id) IN
       /\ thr_id' = x.new
       /\ tloc' = [tloc EXCEPT ![t] = x.old]
       /\ tpc' = [tpc EXCEPT ![t] = IF id_used(x.old) THEN what ELSE "idle"]
       /\ thrObj' = IF what = "dtor"
                    THEN (IF id_used(x.old) THEN "dying" ELSE "dead")
                    ELSE thrObj
    /\ UNCHANGED <<build, thrRun, pthCalls, mutexVars>>

\* pthread_join(id, 0) is entered.
ThreadJoinCall(t) ==
    /\ IpcFrame
    /\ tpc[t] \in {"join", "dtor"}
    /\ Len(pthCalls) < MaxPth
    /\ pthCalls' = Append(pthCalls, PthCall("pthread_join", tloc[t], t))
    /\ tpc' = [tpc EXCEPT ![t] = IF tpc[t] = "join" THEN "joining" ELSE "dtor_joining"]
    /\ UNCHANGED <<build, thrObj, thr_id, thrRun, tloc, mutexVars>>

\* pthread_join returns: the thread has terminated and is reaped, or the id
\* names no joinable thread and the call fails at once.
ThreadJoinReturn(t) ==
    /\ IpcFrame
    /\ tpc[t] \in {"joining", "dtor_joining"}
    /\ thrRun # "running" \/ tloc[t] # StartedId
    /\ thrRun' = IF thrRun = "finished" /\ tloc[t] = StartedId THEN "joined" ELSE thrRun
    /\ tpc' = [tpc EXCEPT ![t] = "idle"]
    /\ thrObj' = IF tpc[t] = "dtor_joining" THEN "dead" ELSE thrObj
    /\ UNCHANGED <<build, thr_id, tloc, pthCalls, mutexVars>>

\* pthread_detach(id)
ThreadDetachCall(t) ==
    /\ IpcFrame
    /\ tpc[t] = "detach"
    /\ Len(pthCalls) < MaxPth
    /\ pthCalls' = Append(pthCalls, PthCall("pthread_detach", tloc[t], t))
    /\ thrRun' = IF thrRun \in {"running", "finished"} /\ tloc[t] = StartedId
                 THEN "detached" ELSE thrRun
    /\ tpc' = [tpc EXCEPT ![t] = "idle"]
    /\ UNCHANGED <<build, thrObj, thr_id, tloc, mutexVars>>

(***************************************************************************)
(* Mutex and MutexGuard (thread.h).  Every pthread call of Mutex is the     *)
(* argument of an assert().  mpc[t] is "out", "waiting" (inside             *)
(* pthread_mutex_lock) or "in" (between lock() and unlock()); the _guard    *)
(* forms are the same positions for the scope of a MutexGuard.              *)
(***************************************************************************)
Inside == {t \in Thr : mpc[t] \in {"in", "in_guard"}}

\* Mutex::Mutex(): assert(0 == pthread_mutex_init(&_mutex, 0)).
Mutex_Mutex(ok) ==
    /\ IpcFrame
    /\ mtxObj = "none"
    /\ Compile
    /\ IF ~AssertRuns
       THEN mtxObj' = "live" /\ UNCHANGED mtxInit
       ELSE IF ok
            THEN mtxObj' = "live" /\ mtxInit' = TRUE
            ELSE mtxObj' = "aborted" /\ UNCHANGED mtxInit
    /\ UNCHANGED <<mtxOwner, mpc, threadVars>>

\* The body of Mutex::lock() for thread t; g is "" or "_guard".
lock_body(t, g) ==
    IF build = "debug"
    THEN IF mtxOwner = 0
         THEN mtxOwner' = t /\ mpc' = [mpc EXCEPT ![t] = "in" \o g]
         ELSE mpc' = [mpc EXCEPT ![t] = "waiting" \o g] /\ UNCHANGED mtxOwner
    ELSE mpc' = [mpc EXCEPT ![t] = "in" \o g] /\ UNCHANGED mtxOwner

\* The body of Mutex::unlock().
unlock_body(t) ==
    /\ mtxOwner' = IF build = "debug" THEN 0 ELSE mtxOwner
    /\ mpc' = [mpc EXCEPT ![t] = "out"]

\* Mutex::lock(): assert(0 == pthread_mutex_lock(&_mutex)).
Mutex_lock(t) ==
    /\ IpcFrame
    /\ mtxObj = "live"
    /\ mpc[t] = "out"
    /\ lock_body(t, "")
    /\ UNCHANGED <<build, mtxObj, mtxInit, threadVars>>

\* pthread_mutex_lock returns in a thread that waited: the mutex is free and
\* becomes this thread's.
MutexAcquire(t) ==
    /\ IpcFrame
    /\ mpc[t] \in {"waiting", "waiting_guard"}
    /\ mtxOwner = 0
    /\ mtxOwner' = t
    /\ mpc' = [mpc EXCEPT ![t] = IF mpc[t] = "waiting" THEN "in" ELSE "in_guard"]
    /\ UNCHANGED <<build, mtxObj, mtxInit, threadVars>>

\* Mutex::unlock(): assert(0 == pthread_mutex_unlock(&_mutex)).
Mutex_unlock(t) ==
    /\ IpcFrame
    /\ mpc[t] = "in"
    /\ unlock_body(t)
    /\ UNCHANGED <<build, mtxObj, mtxInit, threadVars>>

\* MutexGuard::MutexGuard(lock): _lock.lock().
MutexGuard_MutexGuard(t) ==
    /\ IpcFrame
    /\ mtxObj = "live"
    /\ mpc[t] = "out"
    /\ lock_body(t, "_guard")
    /\ UNCHANGED <<build, mtxObj, mtxInit, threadVars>>

\* MutexGuard::~MutexGuard(): _lock.unlock().
MutexGuard_dtor(t) ==
    /\ IpcFrame
    /\ mpc[t] = "in_guard"
    /\ unlock_body(t)
    /\ UNCHANGED <<build, mtxObj, mtxInit, threadVars>>

(***************************************************************************)
(* Specifications.                                                          *)
(***************************************************************************)
vars == <<procVars, kernVars, now, pipeVars, mqVars, semVars, nsVars, shmVars, fifoVars, copyVars,
         thrVars>>

Init ==
    /\ pc = "idle"
    /\ op = NoOp
    /\ ret = 0
    /\ thrown = "none"
    /\ calls = <<>>
    /\ probe = <<>>
    /\ iodone = 0
    /\ out = <<>>
    /\ t0 = ClockStart
    /\ now = ClockStart
    /\ fdtab = [f \in Fd |-> "free"]
    /\ nonblock = {}
    /\ pbuf = <<>>
    /\ peerR = FALSE
    /\ peerW = FALSE
    /\ pipeObj = "none"
    /\ pipe_ = <<IPC_INVALID_FD, IPC_INVALID_FD>>
    /\ mqs = [q \in QId |-> NoQueue]
    /\ mqName = 0
    /\ mqFdQ = 0
    /\ mqPeer = 0
    /\ mqObj = "none"
    /\ mq_fd_ = IPC_INVALID_FD
    /\ maxmsg_ = 0
    /\ semObj = "none"
    /\ semState = "none"
    /\ semCount = 0
    /\ semRel = 0
    /\ nsems = [i \in SId |-> NoSem]
    /\ nsName = 0
    /\ nsPeer = 0
    /\ nsObj = "none"
    /\ sem_ = 0
    /\ shmSeg = FALSE
    /\ shmMapped = {}
    /\ shmObj = "none"
    /\ shm_fd_ = IPC_INVALID_FD
    /\ addr_ = 0
    /\ len_ = 0
    /\ fifoFile = FALSE
    /\ fifoPerm = 0
    /\ fifoObj = "none"
    /\ fifo_fd_ = IPC_INVALID_FD
    /\ fifoOpens = 0
    /\ copyObj = "none"
    /\ copy_ = <<IPC_INVALID_FD, IPC_INVALID_FD>>
    /\ build = "none"
    /\ thrObj = "none"
    /\ thr_id = 0
    /\ thrRun = "none"
    /\ tpc = [t \in Thr |-> "idle"]
    /\ tloc = [t \in Thr |-> NoCall]
    /\ pthCalls = <<>>
    /\ mtxObj = "none"
    /\ mtxInit = FALSE
    /\ mtxOwner = 0
    /\ mpc = [t \in Thr |-> "out"]

NextPipe ==
    \/ \E ok \in BOOLEAN : Pipe_Pipe(ok)
    \/ Pipe_close_r
    \/ Pipe_close_w
    \/ Pipe_close
    \/ Pipe_dtor
    \/ Pipe_set_size
    \/ \E en \in BOOLEAN : Pipe_set_block(en)
    \/ \E d \in Datas, w \in Waits : Pipe_write(d, w)
    \/ \E n \in Lens, w \in Waits : Pipe_read(n, w)
    \/ \E fd \in Fd \cup {IPC_INVALID_FD}, w \in Waits : ipc_write(fd, DataOf(1), w)
    \/ \E fd \in Fd \cup {IPC_INVALID_FD}, w \in Waits : ipc_read(fd, 1, w)
    \/ SelectWake
    \/ SelectExpire
    \/ IoSyscall
    \/ IoWake
    \/ Fork
    \/ \E n \in 1 .. MaxLen : PeerRead(n)
    \/ \E b \in Byte : PeerWrite(b)
    \/ PeerCloseR
    \/ PeerCloseW

SpecPipe == Init /\ [][NextPipe]_vars

\* One process, a Pipe and a Pipe copied from it.  No other process holds
\* an end of the pipe, so nothing wakes a select or a call that waits.
NextPipeCopy ==
    \/ \E ok \in BOOLEAN : Pipe_Pipe(ok)
    \/ Pipe_copy
    \/ Pipe_assign
    \/ Pipe_close_r
    \/ Pipe_close_w
    \/ Pipe_close
    \/ Pipe_dtor
    \/ Copy_close
    \/ Copy_dtor
    \/ \E d \in Datas, w \in Waits : Pipe_write(d, w)
    \/ \E n \in Lens, w \in Waits : Pipe_read(n, w)
    \/ SelectExpire
    \/ IoSyscall

SpecPipeCopy == Init /\ [][NextPipeCopy]_vars

\* One Thread object used by the threads of Thr.
NextThread ==
    \/ \E ok \in BOOLEAN : Thread_Thread(ok)
    \/ ThreadExit
    \/ \E t \in Thr, what \in {"join", "detach", "dtor"} : ThreadSwap(t, what)
    \/ \E t \in Thr : ThreadJoinCall(t)
    \/ \E t \in Thr : ThreadJoinReturn(t)
    \/ \E t \in Thr : ThreadDetachCall(t)

SpecThread == Init /\ [][NextThread]_vars

\* One Mutex object used by the threads of Thr, directly and through guards.
NextMutex ==
    \/ \E ok \in BOOLEAN : Mutex_Mutex(ok)
    \/ \E t \in Thr : Mutex_lock(t)
    \/ \E t \in Thr : MutexAcquire(t)
    \/ \E t \in Thr : Mutex_unlock(t)
    \/ \E t \in Thr : MutexGuard_MutexGuard(t)
    \/ \E t \in Thr : MutexGuard_dtor(t)

SpecMutex == Init /\ [][NextMutex]_vars

\* The lengths a PosixMsgQueue::write is tried with: a message of the
\* configured maximum size, and one that is a byte longer.
MqWriteLens == {MaxMsg, MaxMsg + 1}

\* The lengths a PosixMsgQueue::read is tried with: a buffer shorter than
\* the configured maximum, one of that size, and one that is longer.
MqReadLens == {1, MaxMsg, MaxMsg + 1}

NextMq ==
    \/ \E m \in Modes : PosixMsgQueue_ctor(m, MaxMsg)
    \/ PosixMsgQueue_close
    \/ PosixMsgQueue_dtor
    \/ PosixMsgQueue_destroy
    \/ \E en \in BOOLEAN : PosixMsgQueue_set_block(en)
    \/ \E n \in MqWriteLens, w \in Waits : PosixMsgQueue_write(n, w)
    \/ \E n \in MqReadLens, w \in Waits : PosixMsgQueue_read(n, w)
    \/ MqResume
    \/ \E z \in 1 .. (MaxMsg + 1) : PeerMqCreate(z)
    \/ PeerMqOpen
    \/ PeerMqSend
    \/ PeerMqReceive
    \/ PeerMqClose

SpecMq == Init /\ [][NextMq]_vars

NextSem ==
    \/ \E ok \in BOOLEAN : Sem_Sem(ok)
    \/ Sem_close
    \/ Sem_dtor
    \/ \E b \in BOOLEAN : Sem_sem_p(b)
    \/ SemResume
    \/ Sem_sem_v
    \/ SemPeerV
    \/ SemPeerP
    \/ \E srv \in BOOLEAN : NameSem_NameSem(srv)
    \/ NameSem_close
    \/ NameSem_dtor
    \/ NameSem_unlink
    \/ NameSem_value
    \/ \E b \in BOOLEAN : NameSem_sem_p(b)
    \/ NameSemResume
    \/ NameSem_sem_v
    \/ PeerSemOpen
    \/ PeerSemPost
    \/ PeerSemWait
    \/ PeerSemClose

SpecSem == Init /\ [][NextSem]_vars

MapLens == {0, MaxLen}

NextShm ==
    \/ \E mode \in Modes : PosixShareMem_ctor(mode)
    \/ \E len \in MapLens, mode \in MapModes, shared \in BOOLEAN :
          PosixShareMem_map(len, mode, shared)
    \/ PosixShareMem_unmap
    \/ PosixShareMem_dtor
    \/ PosixShareMem_destroy
    \/ PosixShareMem_addr
    \/ PeerShmCreate
    \/ PeerShmUnlink

SpecShm == Init /\ [][NextShm]_vars

NextFifo ==
    \/ \E mode \in Modes : Fifo_Fifo(mode)
    \/ \E mode \in Modes : Fifo_open(mode)
    \/ FifoOpenResume
    \/ Fifo_close
    \/ Fifo_dtor
    \/ \E en \in BOOLEAN : Fifo_set_block(en)
    \/ \E wait \in Waits : Fifo_write(DataOf(1), wait)
    \/ \E wait \in Waits : Fifo_read(1, wait)
    \/ SelectWake
    \/ SelectExpire
    \/ IoSyscall
    \/ IoWake
    \/ PeerFifoOpenR
    \/ PeerFifoOpenW
    \/ \E n \in 1 .. MaxLen : PeerRead(n)
    \/ \E b \in Byte : PeerWrite(b)
    \/ PeerCloseR
    \/ PeerCloseW

SpecFifo == Init /\ [][NextFifo]_vars

(***************************************************************************)
(* Claims about the guarded read and write.                                 *)
(***************************************************************************)
HandleIo == {"Pipe::read", "Pipe::write", "Fifo::read", "Fifo::write",
             "PosixMsgQueue::read", "PosixMsgQueue::write",
             "ipc::read", "ipc::write"}

\* C2: a read or write that finds an invalid (negative) descriptor issues no
\* system call at all, neither the readiness probe nor the read/write, and
\* returns -1 at once.  This is so for the member functions of Pipe, Fifo
\* and PosixMsgQueue and is claimed for ipc::read / ipc::write as well.
C2_InvalidFdNeverProbed ==
    (op.name \in HandleIo /\ op.fd < 0) =>
        (pc = "idle" /\ calls = <<>> /\ probe = <<>> /\ ret = -1)

\* A guarded read or write on a non-negative descriptor has returned.
GuardedDone == pc = "idle" /\ IsGuarded(op.name) /\ op.fd >= 0

\* C3: for a non-negative descriptor the result follows the probe: the
\* probe is made once, by select on that descriptor; error gives -1 and
\* timeout (select returned 0, or the descriptor is not in the set) gives 0,
\* both without a read/write call; ready is followed by exactly one
\* read/write of the given length whose result is the result.  Hence a read
\* with timeout >= 0 that found the pipe empty with a writer left returns 0.
C3_ProbeDecidesResult ==
    /\ GuardedDone =>
          /\ Len(probe) = 1
          /\ Len(calls) >= 1
          /\ calls[1] = Call("select", op.fd, 0, op.wait, calls[1].res, calls[1].set, TRUE)
          /\ probe[1] = (IF calls[1].res < 0 THEN -1
                         ELSE IF calls[1].res > 0 /\ calls[1].set THEN 1 ELSE 0)
          /\ probe[1] = -1 => (ret = -1 /\ Len(calls) = 1)
          /\ probe[1] = 0  => (ret = 0 /\ Len(calls) = 1)
          /\ probe[1] = 1  =>
                /\ Len(calls) = 2
                /\ calls[2] = Call(IoSys(op.name), op.fd, op.len, 0, ret, FALSE, TRUE)
    /\ (/\ GuardedDone
        /\ Dir(op.name) = "r"
        /\ op.wait >= 0
        /\ IsOpen(op.fd) /\ fdtab[op.fd] = "pipe_r"
        /\ pbuf = <<>> /\ Writers > 0
        /\ Issued("read") = {}) => ret = 0

\* Witness of C3: a Pipe::read with a positive timeout timed out on the empty
\* pipe while the write end was open, and returned 0.
C3_Witness ==
    /\ pc = "idle" /\ op.name = "Pipe::read" /\ op.wait > 0
    /\ probe = <<0>> /\ ret = 0
    /\ pbuf = <<>> /\ Writers > 0

\* C4: a Pipe or Fifo read/write is never suspended in the read or write
\* system call itself: the readiness probe is its only suspension point.
C4_NoSuspensionAfterProbe ==
    ~(pc = "io_wait" /\ op.name \in {"Pipe::read", "Pipe::write", "Fifo::read", "Fifo::write"})

(***************************************************************************)
(* Claims about PosixMsgQueue and the mode character.                       *)
(***************************************************************************)
\* C5: PosixMsgQueue::write with len greater than maxmsg_ returns -1 and
\* issues no send system call, whatever the timeout.
C5_OversizedWriteNoSyscall ==
    (op.name = "PosixMsgQueue::write" /\ op.len > maxmsg_) =>
        (pc = "idle" /\ ret = -1 /\ calls = <<>>)

\* C6: a PosixMsgQueue::read with len greater than maxmsg_ returns -1 at
\* once, issues no system call, and leaves the descriptor, the kernel's
\* descriptor table and every queue with its messages as they were.
C6_OversizedReadRejected ==
    [][\A n \in MqReadLens, w \in Waits :
          (PosixMsgQueue_read(n, w) /\ n > maxmsg_) =>
              /\ pc' = "idle" /\ ret' = -1 /\ thrown' = "none"
              /\ calls' = <<>>
              /\ UNCHANGED <<mq_fd_, maxmsg_, mqObj, mqs, mqName, mqFdQ, mqPeer,
                             fdtab, nonblock>>]_vars

\* Witness of C6: a read with an oversized length was turned down on an open
\* queue that holds a message.
C6_Witness ==
    /\ pc = "idle" /\ op.name = "PosixMsgQueue::read"
    /\ op.len > maxmsg_ /\ op.fd >= 0 /\ op.wait > 0
    /\ ret = -1 /\ calls = <<>>
    /\ mq_fd_ = op.fd /\ mqs[mqFdQ].msgs # <<>>

\* C7: the deadline a timed send or receive is given is the time of the
\* call plus the timeout.
C7_DeadlineIsNowPlusTimeout ==
    \A i \in 1 .. Len(calls) :
        calls[i].sys \in {"mq_timedsend", "mq_timedreceive"} =>
            calls[i].t = t0 + op.wait

\* The operations that take a mode character, kept in op.data.
ModeOps == {"Fifo::Fifo", "Fifo::open", "PosixMsgQueue::PosixMsgQueue",
            "PosixShareMem::PosixShareMem"}

\* C8: an operation given a mode character that trans_mode does not know
\* issues no system call.
C8_BadModeNoSyscall ==
    (op.name \in ModeOps /\ trans_mode(op.data[1]) < 0) => calls = <<>>

(***************************************************************************)
(* Claims: releasing handles and mappings.                                  *)
(***************************************************************************)
\* The system calls that release a handle.
ReleaseSys == {"close", "mq_close", "sem_close", "sem_destroy"}

\* C1: a release call (close / mq_close / sem_close / sem_destroy) is issued
\* at most once per acquired handle: no operation issues one on a handle
\* that has been released already, and a Sem sees at most one sem_destroy
\* after its sem_init.
C1_ReleaseAtMostOnce ==
    /\ semRel <= 1
    /\ \A i \in DOMAIN calls :
          calls[i].sys \in ReleaseSys => calls[i].fd # IPC_INVALID_FD

\* C9: a PosixShareMem has at most one active mapping, and while it has
\* one, addr_ (the value addr() returns) is the mapped address.
C9_AtMostOneMapping ==
    /\ Cardinality(shmMapped) <= 1
    /\ (shmObj = "live" /\ shmMapped # {}) => addr_ \in shmMapped

\* C10: once unmap(), destroy() or the destructor has returned, the process
\* holds no mapping and the stored address is null; an unmap() that finds no
\* mapping issues no munmap.
C10_UnmapReleases ==
    (pc = "idle" /\ op.name \in {"PosixShareMem::unmap", "PosixShareMem::destroy",
                                 "PosixShareMem::~PosixShareMem"})
        => /\ shmMapped = {}
           /\ addr_ = 0
           /\ op.fd = IPC_INVALID_FD => \A i \in DOMAIN calls : calls[i].sys # "munmap"

(***************************************************************************)
(* Claims: destroying objects and names.                                    *)
(***************************************************************************)
\* The descriptors of the kinds ks that are open once the step is done.
OpenAfter(ks) == {f \in Fd : fdtab'[f] \in ks}

\* C11: destroy implies close and nothing leaks.  Once PosixMsgQueue::destroy,
\* NameSem::unlink or PosixShareMem::destroy has returned, the object holds
\* no handle or descriptor and the name denotes nothing; once a destructor
\* has returned, no descriptor the object obtained is still open.
C11_DestroyReleases ==
    [][ /\ PosixMsgQueue_destroy =>
             mq_fd_' = IPC_INVALID_FD /\ mqName' = 0 /\ OpenAfter({"mq_r", "mq_w", "mq_rw"}) = {}
        /\ NameSem_unlink => sem_' = 0 /\ nsName' = 0
        /\ PosixShareMem_destroy =>
             shm_fd_' = IPC_INVALID_FD /\ ~shmSeg' /\ OpenAfter({"shm"}) = {}
        /\ PosixMsgQueue_dtor => OpenAfter({"mq_r", "mq_w", "mq_rw"}) = {}
        /\ Pipe_dtor => OpenAfter({"pipe_r", "pipe_w"}) = {}
        /\ NameSem_dtor => sem_' = 0
        /\ PosixShareMem_dtor => OpenAfter({"shm"}) = {}
      ]_vars

(***************************************************************************)
(* Claims: the semaphores.                                                  *)
(***************************************************************************)
\* What a step of sem_p / sem_v does to a semaphore that is initialised
\* (Sem) or open (NameSem) and has count c before and c2 after the step:
\* a sem_p that does not wait takes the semaphore and returns true iff c > 0
\* and otherwise returns false at once with the count unchanged; a sem_p that
\* waits returns true having taken it, or is suspended with the count
\* unchanged; a resumed sem_p has taken it; sem_v adds one.
TryStep(c, c2)  == /\ pc' = "idle"
                   /\ IF c > 0 THEN ret' = 1 /\ c2 = c - 1 ELSE ret' = 0 /\ c2 = c
WaitStep(c, c2) == IF c > 0 THEN pc' = "idle" /\ ret' = 1 /\ c2 = c - 1
                   ELSE pc' = "sem_wait" /\ c2 = c
WokenStep(c, c2) == c > 0 /\ pc' = "idle" /\ ret' = 1 /\ c2 = c - 1
PostStep(c, c2) == pc' = "idle" /\ ret' = 1 /\ c2 = c + 1

SemSteps ==
    /\ semCount' >= 0 /\ \A i \in SId : nsems'[i].count >= 0
    /\ (Sem_sem_p(FALSE) /\ semState = "init") => TryStep(semCount, semCount')
    /\ (Sem_sem_p(TRUE) /\ semState = "init") => WaitStep(semCount, semCount')
    /\ SemResume => WokenStep(semCount, semCount')
    /\ (Sem_sem_v /\ semState = "init") => PostStep(semCount, semCount')
    /\ (NameSem_sem_p(FALSE) /\ sem_ # 0) => TryStep(nsems[sem_].count, nsems'[sem_].count)
    /\ (NameSem_sem_p(TRUE) /\ sem_ # 0) => WaitStep(nsems[sem_].count, nsems'[sem_].count)
    /\ NameSemResume => WokenStep(nsems[sem_].count, nsems'[sem_].count)
    /\ (NameSem_sem_v /\ sem_ # 0) => PostStep(nsems[sem_].count, nsems'[sem_].count)
    /\ Sem_Sem(TRUE) => semCount' = 1

\* The step constructs a NameSem, successfully.
NameSemBuilt == (\E srv \in BOOLEAN : NameSem_NameSem(srv)) /\ nsObj' = "live"

\* C12 as stated: Sem and NameSem are counting semaphores whose count is 1
\* after every successful construction.
C12_CountIsOneOnceBuilt ==
    [][SemSteps /\ (NameSemBuilt => nsems'[sem_'].count = 1)]_vars

\* C12: Sem and NameSem are counting semaphores (the count is never
\* negative, sem_p(false) takes it iff it is positive and never waits,
\* sem_p(true) returns true only having taken it, sem_v adds one); the count
\* is 1 after the construction of a Sem, and of a NameSem whose name denoted
\* no semaphore.
C12_CountingSemaphore ==
    [][SemSteps /\ ((NameSemBuilt /\ nsName = 0) => nsems'[sem_'].count = 1)]_vars

\* A sem_p(false) on an initialised Sem of count 0 has returned false.
C12_Witness ==
    /\ pc = "idle" /\ op.name = "Sem::sem_p" /\ op.wait = 0 /\ op.fd >= 0
    /\ ret = 0 /\ semCount = 0 /\ semState = "init"
    /\ calls # <<>> /\ calls[1].sys = "sem_trywait" /\ calls[1].res = -1

\* A step of an operation of the program on its NameSem.
NameSemOwnStep ==
    \/ \E b \in BOOLEAN : NameSem_sem_p(b) \/ NameSem_NameSem(b)
    \/ NameSemResume \/ NameSem_sem_v \/ NameSem_value
    \/ NameSem_close \/ NameSem_unlink \/ NameSem_dtor

\* A step of the process that holds a semaphore of its own.
NameSemPeerStep == PeerSemPost \/ PeerSemWait \/ PeerSemClose \/ PeerSemOpen

MqRecreatedIsFresh ==
    [][ /\ PosixMsgQueue_destroy => mqName' = 0 /\ mq_fd_' = IPC_INVALID_FD
        /\ \A mode \in Modes :
             (PosixMsgQueue_ctor(mode, MaxMsg) /\ mqName = 0 /\ trans_mode(mode) >= 0
                /\ HasCreat(trans_mode(mode)) /\ FreeFds # {}) =>
                 /\ mqObj' = "live" /\ thrown' = "none"
                 /\ mqFdQ' # 0 /\ mqFdQ' # mqPeer
                 /\ mqs'[mqFdQ'].msgs = <<>>
                 /\ mqPeer # 0 => mqs'[mqPeer] = mqs[mqPeer]
      ]_vars

(***************************************************************************)
(* Claims: the Pipe.                                                        *)
(***************************************************************************)
\* The step executes the read (write) system call of a Pipe::read (write).
PipeReadCall  == (IoSyscall \/ IoWake) /\ op.name = "Pipe::read"
PipeWriteCall == (IoSyscall \/ IoWake) /\ op.name = "Pipe::write"

\* C14: Pipe round trip.  A write of S, of a length within the capacity, to
\* a Pipe whose buffer is empty is ready at once, returns Len(S) and leaves
\* exactly S in the pipe; a read finding bytes in the pipe is ready at once,
\* returns the number of bytes it takes, which are the oldest ones in write
\* order, all of them if its buffer is long enough; nothing but a write or
\* read system call on the pipe, by the program or a peer, changes what is
\* in the pipe between the two.
C14_PipeRoundTrip ==
    [][ /\ \A S \in Datas, t \in Waits :
             (Pipe_write(S, t) /\ pipe_[2] >= 0 /\ Readers > 0 /\ pbuf = <<>>)
                 => pc' = "io" /\ pbuf' = pbuf
        /\ (PipeWriteCall /\ IsOpen(op.fd) /\ Readers > 0 /\ pbuf = <<>>
              /\ iodone = 0 /\ Len(op.data) <= PipeCap)
                 => pc' = "idle" /\ ret' = Len(op.data) /\ pbuf' = op.data
        /\ \A n \in Lens, t \in Waits :
             (Pipe_read(n, t) /\ pipe_[1] >= 0 /\ pbuf # <<>>)
                 => pc' = "io" /\ pbuf' = pbuf
        /\ (PipeReadCall /\ IsOpen(op.fd) /\ pbuf # <<>> /\ op.len > 0)
                 => LET k == Min(op.len, Len(pbuf)) IN
                    /\ pc' = "idle" /\ ret' = k
                    /\ out' = SubSeq(pbuf, 1, k)
                    /\ out' \o pbuf' = pbuf
        /\ pbuf' # pbuf => \/ pc \in {"io", "io_wait"}
                           \/ peerR \/ peerW
      ]_vars

\* A Pipe::read with room for all of it has returned the two bytes that a
\* Pipe::write put into the empty pipe.
C14_Witness ==
    /\ pc = "idle" /\ op.name = "Pipe::read" /\ op.len >= 2
    /\ ret = 2 /\ out = DataOf(2) /\ pbuf = <<>>
    /\ ~peerR /\ ~peerW
    /\ Len(calls) = 2 /\ calls[2].sys = "read" /\ calls[2].res = 2

\* The step leaves descriptor fd, if the object holds one, as it is in the
\* kernel; the step has closed fd, if the object held one.
KeepsFd(fd)  == fd >= 0 => /\ fdtab'[fd] = fdtab[fd]
                           /\ (fd \in nonblock') = (fd \in nonblock)
ClosesFd(fd) == fd >= 0 => fdtab'[fd] = "free"

\* The descriptors the close calls of the step were issued on.
ClosedBy == {calls'[i].fd : i \in {j \in DOMAIN calls' : calls'[j].sys = "close"}}

\* C15: the two ends of a Pipe are closed independently.  close_r()
\* invalidates and closes the read end only, the write end stays open and as
\* it was; close_w() the write end only; close() both.  With only one end
\* closed, a write (read) on the other still goes to the kernel.
C15_EndsClosedIndependently ==
    [][ /\ Pipe_close_r =>
             /\ pipe_' = <<IPC_INVALID_FD, pipe_[2]>>
             /\ ClosesFd(pipe_[1]) /\ KeepsFd(pipe_[2])
             /\ ClosedBy = {pipe_[1]} \ {IPC_INVALID_FD}
        /\ Pipe_close_w =>
             /\ pipe_' = <<pipe_[1], IPC_INVALID_FD>>
             /\ ClosesFd(pipe_[2]) /\ KeepsFd(pipe_[1])
             /\ ClosedBy = {pipe_[2]} \ {IPC_INVALID_FD}
        /\ Pipe_close =>
             /\ pipe_' = <<IPC_INVALID_FD, IPC_INVALID_FD>>
             /\ ClosesFd(pipe_[1]) /\ ClosesFd(pipe_[2])
             /\ ClosedBy = {pipe_[1], pipe_[2]} \ {IPC_INVALID_FD}
        /\ \A S \in Datas, t \in Waits :
             (Pipe_write(S, t) /\ pipe_[2] >= 0) =>
                 calls' # <<>> /\ calls'[1].fd = pipe_[2] /\ IsOpen(pipe_[2])
        /\ \A n \in Lens, t \in Waits :
             (Pipe_read(n, t) /\ pipe_[1] >= 0) =>
                 calls' # <<>> /\ calls'[1].fd = pipe_[1] /\ IsOpen(pipe_[1])
      ]_vars

\* After close_r() alone, a Pipe::write has gone as far as the write system
\* call on the write end, which is still open.
C15_Witness ==
    /\ op.name = "Pipe::write" /\ pipeObj = "live"
    /\ pipe_[1] = IPC_INVALID_FD /\ pipe_[2] >= 0 /\ fdtab[pipe_[2]] = "pipe_w"
    /\ \E i \in DOMAIN calls : calls[i].sys = "write" /\ calls[i].fd = pipe_[2]

(***************************************************************************)
(* Claims: the Fifo.                                                        *)
(***************************************************************************)
ValidModes == {m \in Modes : trans_mode(m) >= 0}

\* The step is a Fifo::open(mode) on an object that holds no descriptor,
\* and the kernel's answer to its ::open is k.
OpensAnew(mode, k) ==
    /\ Fifo_open(mode) /\ fifo_fd_ < 0
    /\ \E priv \in BOOLEAN : KFifoOpen(trans_mode(mode), priv) = k

\* C16: Fifo open/close is repeatable.  close() leaves the file in place and
\* the object without a descriptor; open() on an object that holds a
\* descriptor returns false, issues no call and keeps the descriptor; open()
\* with a valid mode on an object without a descriptor always issues ::open,
\* however often the object was opened and closed before, and returns true
\* with the new descriptor whenever ::open grants one: where the kernel can
\* grant it, such an open() can succeed.
C16_OpenCloseRepeatable ==
    /\ [][ /\ Fifo_close =>
                /\ fifoFile' /\ fifo_fd_' = IPC_INVALID_FD
                /\ fifo_fd_ >= 0 => fdtab'[fifo_fd_] = "free"
           /\ \A mode \in Modes :
                (Fifo_open(mode) /\ fifo_fd_ >= 0) =>
                    /\ pc' = "idle" /\ ret' = 0 /\ calls' = <<>>
                    /\ fifo_fd_' = fifo_fd_ /\ fdtab' = fdtab
           /\ \A mode \in ValidModes :
                /\ (Fifo_open(mode) /\ fifo_fd_ < 0) =>
                       calls' # <<>> /\ calls'[1].sys = "open"
                /\ (OpensAnew(mode, "ok") /\ pc' = "idle" /\ calls'[1].res >= 0) =>
                       /\ ret' = 1 /\ fifo_fd_' = calls'[1].res
                       /\ fdtab[fifo_fd_'] = "free" /\ fdtab'[fifo_fd_'] # "free"
                /\ (OpensAnew(mode, "fail") /\ pc' = "idle" /\ calls'[1].res < 0) =>
                       ret' = 0 /\ fifo_fd_' = IPC_INVALID_FD /\ fdtab' = fdtab
         ]_vars
    /\ [](\A mode \in ValidModes :
            (FifoIdle /\ fifo_fd_ < 0 /\ fifoOpens < MaxOpens
               /\ KFifoOpen(trans_mode(mode), TRUE) = "ok")
                => ENABLED (Fifo_open(mode) /\ ret' = 1 /\ fifo_fd_' >= 0))

\* A Fifo object holds the descriptor of its second successful open().
C16_Witness ==
    /\ pc = "idle" /\ op.name = "Fifo::open" /\ ret = 1
    /\ fifoOpens = 2 /\ fifo_fd_ >= 0 /\ IsOpen(fifo_fd_) /\ fifoFile

(***************************************************************************)
(* Claims: rejected calls.                                                  *)
(***************************************************************************)
\* C17: a call rejected for its arguments changes nothing.  After a
\* Fifo::open with an unknown mode or on an object that holds a descriptor,
\* a PosixMsgQueue::read with len > maxmsg_, and a PosixShareMem::map on an
\* object that holds a mapping or with an unknown protection mode, every
\* field of the object and the kernel's tables are as before the call, and
\* no system call was issued.
C17_RejectionChangesNothing ==
    [][ /\ \A mode \in Modes :
             (Fifo_open(mode) /\ (fifo_fd_ >= 0 \/ trans_mode(mode) < 0)) =>
                 /\ calls' = <<>> /\ pc' = "idle" /\ ret' = 0
                 /\ UNCHANGED <<fifoVars, kernVars, pbuf>>
        /\ \A n \in MqReadLens, w \in Waits :
             (PosixMsgQueue_read(n, w) /\ n > maxmsg_) =>
                 /\ calls' = <<>> /\ pc' = "idle" /\ ret' = -1
                 /\ UNCHANGED <<mqVars, kernVars>>
        /\ \A len \in MapLens, mode \in MapModes, shared \in BOOLEAN :
             (PosixShareMem_map(len, mode, shared) /\ (addr_ # 0 \/ ~prot_known(mode))) =>
                 /\ calls' = <<>> /\ pc' = "idle"
                 /\ UNCHANGED <<shmVars, kernVars>>
      ]_vars

(***************************************************************************)
(* Claims: the message queue's buffer.                                      *)
(***************************************************************************)
\* C18: PosixMsgQueue::read never stores more than len bytes.  The size it
\* passes to mq_receive / mq_timedreceive, and the size of the message the
\* call delivers, are at most the len it was called with.
C18_ReceiveWithinLen ==
    op.name = "PosixMsgQueue::read" =>
        \A i \in DOMAIN calls :
            calls[i].sys \in {"mq_receive", "mq_timedreceive"} =>
                /\ calls[i].len <= op.len
                /\ calls[i].fin => calls[i].res <= op.len

(***************************************************************************)
(* Claims: released handles.                                                *)
(***************************************************************************)
\* The operations, read and write apart, that work on the object's handle.
HandleOps == {"NameSem::sem_p", "NameSem::sem_v", "NameSem::value",
              "Sem::sem_p", "Sem::sem_v",
              "PosixMsgQueue::set_block", "PosixMsgQueue::notify",
              "Fifo::set_block"}

\* C19: no operation touches a released handle.  An operation of HandleOps
\* called on an object whose handle has been released (closed, destroyed)
\* fails, returning false or -1, and issues no system call.
C19_ReleasedHandleUntouched ==
    (op.name \in HandleOps /\ op.fd = IPC_INVALID_FD) =>
        calls = <<>> /\ pc = "idle" /\ ret \in {0, -1}


\* C20: handles are exclusively owned.  In every reachable state, a Pipe
\* copied from or assigned from another included, two live instances hold no
\* descriptor in common, and no close is issued on a descriptor that is
\* closed already (no descriptor is closed twice across instances).
SharedFds == {f \in Fd : (\E i \in 1 .. 2 : pipe_[i] = f) /\ (\E j \in 1 .. 2 : copy_[j] = f)}
ClosedTwice == \E k \in Issued("close") : calls[k].res = -1
C20_ExclusiveOwnership ==
    /\ (pipeObj = "live" /\ copyObj = "live") => SharedFds = {}
    /\ ~ClosedTwice


\* C21: after Pipe::set_block(en) returns true, every open end of the pipe
\* (read and write descriptor) is blocking when en is true and non-blocking
\* when en is false; it returns false when both ends are closed.
OpenEnds == {f \in Fd : (\E i \in 1 .. 2 : pipe_[i] = f) /\ IsOpen(f)}
C21_SetBlockBothEnds ==
    [][\A en \in BOOLEAN :
          Pipe_set_block(en) =>
             /\ ret' = 1 => \A f \in OpenEnds : (f \in nonblock') <=> ~en
             /\ (pipe_[1] < 0 /\ pipe_[2] < 0) => ret' = 0]_vars


\* C22: for one Thread object, under any interleaving of join() and detach()
\* calls from any number of threads (the join() of the destructor included),
\* pthread_join or pthread_detach is called at most once in total on the
\* thread id, and never on id 0.
C22_JoinOrDetachOnce ==
    /\ Len(pthCalls) <= 1
    /\ \A k \in 1 .. Len(pthCalls) : pthCalls[k].id # 0

\* The thread was detached by a thread other than the owner, another call
\* found the id taken, and the destructor has run.
C22_Witness ==
    /\ thrObj = "dead"
    /\ Len(pthCalls) = 1
    /\ pthCalls[1].sys = "pthread_detach"
    /\ pthCalls[1].by # 1
    /\ \E t \in Thr \ {1, pthCalls[1].by} : tpc[t] = "idle" /\ tloc[t] = 0 /\ thr_id = 0


\* C23: Mutex and MutexGuard give mutual exclusion.  lock() returns only
\* once the calling thread holds the pthread mutex, so at most one thread is
\* between lock() and unlock(), or inside the scope of a MutexGuard, on the
\* same Mutex, whether or not assert() is compiled out.
C23_MutualExclusion ==
    /\ Cardinality(Inside) <= 1
    /\ \A t \in Inside : mtxOwner = t

====
